---- MODULE Spec2Model ----
(***************************************************************************)
(* Model of the bulk-import pipeline and user API of the FastAPI backend:  *)
(*   - upload_excel / get_task_status          (backend/app/main.py)       *)
(*   - process_excel_task                      (backend/app/tasks.py)      *)
(*   - ConnectionManager and websocket_notify  (backend/app/main.py)       *)
(*   - register, login, the /users endpoints,                              *)
(*     import_validated_data and role_required (main.py, utils/auth.py)    *)
(* Strings are sequences of one-character strings, so that str.strip,      *)
(* str.lower and str.endswith are computed, not assumed.                    *)
(***************************************************************************)
EXTENDS Integers, Sequences, FiniteSets, TLC

(***************************************************************************)
(* Bounds of the model.                                                    *)
(***************************************************************************)
\* number of upload_excel requests that are accepted and enqueued
MaxTasks == 2
\* number of accepted uploads when the infrastructure may fail
FaultTasks == 1
\* number of WebSocket clients that ever connect
MaxConns == 2
\* number of broadcast calls that are ever started
MaxBroadcasts == 2

\* the largest count of rows whose percent is tabulated
MaxCount == 4
\* number of accepted uploads when a client polls and results expire
PollTasks == 1
\* number of preview tasks that are sent
PreviewTasks == 1
\* number of uploads accepted while the relay runs
RelayTasks == 1
\* the largest number of rows of a workbook whose percent is computed
MaxTotal == 50
\* number of WebSocket clients that connect while the relay runs
RelayConns == 1
\* number of rows of the large workbook
BigRows == 54
\* number of calls of the user endpoints that may be in flight at once
MaxRequests == 1
\* the largest value of AUTO_INCREMENT at which a user is still created
MaxId == 2

\* config.py: the lifetimes of the tokens, in minutes
ACCESS_TOKEN_EXPIRE_MINUTES == 30
REFRESH_TOKEN_EXPIRE_MINUTES == 10080

(***************************************************************************)
(* Python string operations.                                               *)
(***************************************************************************)
RECURSIVE LStrip(_)
LStrip(s) ==
    IF s = <<>> THEN s
    ELSE IF Head(s) = " " THEN LStrip(Tail(s)) ELSE s

RECURSIVE RStrip(_)
RStrip(s) ==
    IF s = <<>> THEN s
    ELSE IF s[Len(s)] = " " THEN RStrip(SubSeq(s, 1, Len(s) - 1)) ELSE s

\* strip that removes nothing
StripNothing(s) == s

\* str.strip(): removes leading and trailing whitespace
Strip(s) == RStrip(LStrip(s))

\* str.lower() on one character (the upper-case letters of the model's alphabet)
LowerChar(ch) ==
    CASE ch = "U" -> "u"
      [] ch = "E" -> "e"
      [] ch = "P" -> "p"
      [] ch = "A" -> "a"
      [] ch = "C" -> "c"
      [] OTHER -> ch

\* str.lower()
Lower(s) == [i \in 1..Len(s) |-> LowerChar(s[i])]

\* str.endswith(suffix)
EndsWith(s, suf) ==
    /\ Len(suf) <= Len(s)
    /\ SubSeq(s, Len(s) - Len(suf) + 1, Len(s)) = suf

(***************************************************************************)
(* Spreadsheet cells as pandas returns them: an empty cell is NaN, a text  *)
(* cell is a str.                                                          *)
(***************************************************************************)
NaN == [kind |-> "nan", v |-> <<>>]

Text(s) == [kind |-> "str", v |-> s]

\* str that turns NaN into the empty string
StrOfNaNEmpty(cell) == cell.v

\* str(row["..."]): str(nan) is the three characters "nan"
Str(cell) == IF cell.kind = "nan" THEN <<"n", "a", "n">> ELSE cell.v

(***************************************************************************)
(* The files a client may upload.                                          *)
(***************************************************************************)
col_username == <<"u", "s", "e", "r", "n", "a", "m", "e">>
col_email == <<"e", "m", "a", "i", "l">>
col_password == <<"p", "a", "s", "s", "w", "o", "r", "d">>

required_columns == {col_username, col_email, col_password}

Row(u, e, p) == [username |-> u, email |-> e, password |-> p]

ana == <<"a", "n", "a">>
ana_mail == <<"a", "@", "x">>
bob_mail == <<"b", "@", "x">>
pw1 == <<"p", "1">>
pw2 == <<"p", "2">>

\* a valid sheet with capitalised headers, followed by a sheet that is ignored.
\* The rows: a complete row; a row whose username is blank; a row with an
\* empty username cell that repeats the first row's email with surrounding
\* whitespace
File1 ==
    << [name |-> "Users",
        columns |-> <<<<"U", "s", "e", "r", "n", "a", "m", "e">>, <<"E", "m", "a", "i", "l">>,
                      <<"P", "a", "s", "s", "w", "o", "r", "d">>>>,
        rows |-> << Row(Text(ana), Text(ana_mail), Text(pw1)),
                    Row(Text(<<" ">>), Text(bob_mail), Text(pw2)),
                    Row(NaN, Text(<<" ">> \o ana_mail \o <<" ">>), Text(pw2)) >>],
       [name |-> "Notes",
        columns |-> <<<<"n", "o", "t", "e">>>>,
        rows |-> << [note |-> Text(ana)] >>] >>

\* no sheet has the required columns
File2 ==
    << [name |-> "Users",
        columns |-> <<<<"n", "o", "m", "b", "r", "e">>, col_email>>,
        rows |-> << [nombre |-> Text(ana), email |-> Text(ana_mail)] >>] >>

\* one valid sheet with one complete row
File3 ==
    << [name |-> "Users",
        columns |-> <<col_username, col_email, col_password>>,
        rows |-> << Row(Text(ana), Text(ana_mail), Text(pw1)) >>] >>

\* the n-th name and the n-th mailbox of the large workbook
Name(n) == <<"u">> \o [k \in 1..n |-> "x"]
Mail(n) == [k \in 1..n |-> "x"] \o <<"@", "x">>

\* a workbook whose only sheet has BigRows rows with distinct emails, enough
\* for more than one chunk of 50 inserts; the username of rows 3, 28, 53, ...
\* is blank
File4 ==
    << [name |-> "Users",
        columns |-> <<col_username, col_email, col_password>>,
        rows |-> [n \in 1..BigRows |->
                    Row(IF n % 25 = 3 THEN Text(<<" ">>) ELSE Text(Name(n)),
                        Text(Mail(n)), Text(pw1))]] >>

Files == <<File1, File2, File3, File4>>

FileIds == 1..Len(Files)

\* the files whose runs stage fewer than 50 inserts
SmallFiles == {1, 2}

\* xl.sheet_names
SheetNames(f) == [i \in 1..Len(Files[f]) |-> Files[f][i].name]

HasSheet(f, name) == \E i \in 1..Len(Files[f]) : Files[f][i].name = name

\* pd.read_excel(file_path, sheet_name=name)
ReadSheet(f, name) == Files[f][CHOOSE i \in 1..Len(Files[f]) : Files[f][i].name = name]

\* df.columns = [c.lower() for c in df.columns]; required_columns.issubset(df.columns)
HasRequiredColumns(sheet) ==
    required_columns \subseteq {Lower(sheet.columns[i]) : i \in 1..Len(sheet.columns)}


(***************************************************************************)
(* Uploaded file names and paths.                                          *)
(***************************************************************************)
UPLOAD_DIR == <<"/", "a", "p", "p", "/", "u", "p", "l", "o", "a", "d", "s">>

\* os.path.join(UPLOAD_DIR, file.filename)
PathJoin(dir, name) == dir \o <<"/">> \o name

FileNames ==
    { <<"a", ".", "x", "l", "s", "x">>,
      <<"c", ".", "c", "s", "v">> }

\* file.filename.endswith((".xls", ".xlsx"))
SupportedFormat(name) ==
    \/ EndsWith(name, <<".", "x", "l", "s">>)
    \/ EndsWith(name, <<".", "x", "l", "s", "x">>)

Paths == {PathJoin(UPLOAD_DIR, n) : n \in FileNames}

(***************************************************************************)
(* State.                                                                  *)
(***************************************************************************)
VARIABLES
    fs,           \* upload directory: path -> id of the file stored there, 0 if none
    nextTask,     \* number of tasks enqueued so far
    file_path,    \* task id -> the file_path argument of the enqueued task
    lastUpload,   \* the response of the latest upload_excel call
    loc,          \* task id -> local variables and position of process_excel_task
    session,      \* task id -> the SQLAlchemy session of the run
    users,        \* committed rows of the users table
    store,        \* Celery result backend: task id -> state and meta
    published,    \* task id -> messages the run published on progress_channel
    reads,        \* task id -> ids of the files the run has read (history)
    upFile,       \* task id -> id of the file whose upload enqueued the task (history)
    lastPoll,     \* the response of the latest get_task_status call
    hist,         \* task id -> what the run found and did in the users table (history)
    active_connections, \* ws_manager.active_connections
    conn,         \* connection -> its position in websocket_notify
    bc,           \* broadcast call -> its local state
    relay,        \* local variables and position of redis_listener
    cursor,       \* task id -> messages of the task the subscription has passed
    lifecycle,    \* position of startup_event and of shutdown_event
    api,          \* request -> position, locals and response of a user endpoint call
    auto_increment \* AUTO_INCREMENT of users.id

pipeVars == <<fs, nextTask, file_path, lastUpload, loc, session, users, store,
              published, reads, upFile, lastPoll, hist>>

relayVars == <<relay, cursor, lifecycle>>

wsVars == <<active_connections, conn, bc, relay, cursor, lifecycle>>

apiVars == <<api, auto_increment>>

vars == <<fs, nextTask, file_path, lastUpload, loc, session, users, store,
          published, reads, upFile, lastPoll, hist, active_connections, conn, bc,
          relay, cursor, lifecycle, api, auto_increment>>

TaskIds == 1..MaxTasks

\* `total` is not bound before line 101 has run
Unbound == -1

NoSheet == [name |-> "", columns |-> <<>>, rows |-> <<>>]

NoResult == [status |-> "none", rows |-> 0, skipped |-> <<>>, error |-> ""]

InitLoc ==
    [pc |-> "none", sheet_names |-> <<>>, si |-> 0, sheet_name |-> "", df |-> NoSheet,
     ri |-> 0, total |-> Unbound, current |-> 0, percent |-> 0, inserted |-> 0,
     skipped |-> <<>>, valid_sheets |-> <<>>, e |-> "", at |-> "", result |-> NoResult]

ClosedSession == [open |-> FALSE, new |-> <<>>, flushed |-> {}, snapshot |-> {}, has_snapshot |-> FALSE]

Pending == [state |-> "PENDING"]

\* after: the runs that had succeeded when this one started; users0, users1: the
\* users table when it started and ended; committed: the rows it has committed
NoHist == [after |-> {}, users0 |-> {}, users1 |-> {}, committed |-> {}]


(***************************************************************************)
(* The users table (MySQL/InnoDB, default isolation REPEATABLE READ) and   *)
(* the SQLAlchemy session of a run (sessionmaker(bind=engine): autoflush). *)
(***************************************************************************)
\* inserted % 50
ChunkSize == 50

\* bcrypt.hashpw(password.encode("utf-8"), bcrypt.gensalt()).decode("utf-8");
\* the salt is not modelled
HashPw(password) == <<"$", "2", "b", "$">> \o password

\* User(username=username, email=email, password_hash=...)
User(username, email, password) ==
    [username |-> username, email |-> email, password_hash |-> HashPw(password)]

Emails(rows) == {u.email : u \in rows}

SeqToSet(q) == {q[i] : i \in 1..Len(q)}

\* rows other sessions have INSERTed and not yet committed: they hold the
\* unique-index lock on their email
OthersUncommitted(t) == UNION {session[o].flushed : o \in TaskIds \ {t}}

\* the INSERTs of a flush when users.email has no unique index
FlushUnchecked(pending, mine, t) == "ok"

\* the INSERTs of a flush, in order: "duplicate" is MySQL error 1062 on the
\* unique index users.email, "wait" is a lock wait on an uncommitted row
RECURSIVE FlushStatus(_, _, _)
FlushStatus(pending, mine, t) ==
    IF pending = <<>> THEN "ok"
    ELSE IF Head(pending).email \in Emails(users) \cup Emails(mine) THEN "duplicate"
    ELSE IF Head(pending).email \in Emails(OthersUncommitted(t)) THEN "wait"
    ELSE FlushStatus(Tail(pending), mine \cup {Head(pending)}, t)

\* session.flush(): pending objects are INSERTed inside the open transaction
Flushed(s) == [s EXCEPT !.flushed = @ \cup SeqToSet(s.new), !.new = <<>>]

\* the first consistent read of a transaction fixes its snapshot
WithSnapshot(s) ==
    IF s.has_snapshot THEN s ELSE [s EXCEPT !.snapshot = users, !.has_snapshot = TRUE]

\* session.query(User).filter(User.email == email).first(), after the autoflush
QueryByEmail(s, email) == email \in Emails(s.snapshot) \cup Emails(s.flushed)

\* the transaction is over: rollback(), or the rollback SQLAlchemy does when a flush fails
RolledBack(s) == [s EXCEPT !.new = <<>>, !.flushed = {}, !.snapshot = {}, !.has_snapshot = FALSE]

\* the state in which a failed flush leaves the session
FlushFailed(s) == [s EXCEPT !.flushed = {}, !.snapshot = {}, !.has_snapshot = FALSE]

(***************************************************************************)
(* Progress figures and messages.                                          *)
(***************************************************************************)
(***************************************************************************)
(* int((current / total) * 100) in IEEE 754 binary64 arithmetic, rounding  *)
(* to nearest, ties to even.  A positive float is its 53-bit significand   *)
(* as five digits D in base 2^13, the first digit being the leading 1, and *)
(* its exponent E: the value is (D / 2^52) * 2^E.  The counts of the model *)
(* stay far below 2^17, which keeps every intermediate in 32 bits.         *)
(***************************************************************************)
Base == 8192

RECURSIVE Pow2(_)
Pow2(n) == IF n = 0 THEN 1 ELSE 2 * Pow2(n - 1)

RECURSIVE ScaleUp(_, _, _)
ScaleUp(a, b, k) == IF a < b THEN ScaleUp(2 * a, b, k - 1) ELSE [a |-> a, b |-> b, k |-> k]

RECURSIVE ScaleDown(_, _, _)
ScaleDown(a, b, k) == IF a >= 2 * b THEN ScaleDown(a, 2 * b, k + 1) ELSE [a |-> a, b |-> b, k |-> k]

\* c / t = (a / b) * 2^k with 1 <= a / b < 2
Normalize(c, t) == ScaleDown(ScaleUp(c, t, 0).a, ScaleUp(c, t, 0).b, ScaleUp(c, t, 0).k)

\* D + 1 at digit i, carrying towards the first digit
RECURSIVE IncDigits(_, _)
IncDigits(D, i) ==
    IF i = 1 \/ D[i] < Base - 1 THEN [D EXCEPT ![i] = D[i] + 1]
    ELSE IncDigits([D EXCEPT ![i] = 0], i - 1)

\* the float of significand D (rounded up when up) and exponent E
Rounded(D, E, up) ==
    IF up /\ IncDigits(D, 5)[1] = 2 THEN [D |-> <<1, 0, 0, 0, 0>>, E |-> E + 1]
    ELSE [D |-> IF up THEN IncDigits(D, 5) ELSE D, E |-> E]

\* current / total, both positive: long division, one digit at a time
FloatDiv(c, t) ==
    LET n == Normalize(c, t)
        b == n.b
        r0 == n.a - b
        r1 == (r0 * Base) % b
        r2 == (r1 * Base) % b
        r3 == (r2 * Base) % b
        r4 == (r3 * Base) % b
        D == <<1, (r0 * Base) \div b, (r1 * Base) \div b, (r2 * Base) \div b, (r3 * Base) \div b>>
        guard == 2 * r4 >= b
        rest == IF guard THEN 2 * r4 - b ELSE 2 * r4
    IN Rounded(D, n.k, guard /\ (rest # 0 \/ D[5] % 2 = 1))

\* x * 100: the exact product has 59 or 60 bits, rounded back to 53
FloatMul100(x) ==
    LET x5 == x.D[5] * 100
        x4 == x.D[4] * 100 + x5 \div Base
        x3 == x.D[3] * 100 + x4 \div Base
        x2 == x.D[2] * 100 + x3 \div Base
        P == <<x.D[1] * 100 + x2 \div Base, x2 % Base, x3 % Base, x4 % Base, x5 % Base>>
        s == IF P[1] >= 128 THEN 7 ELSE 6
        N == [i \in 1..5 |->
                IF i = 1 THEN P[1] \div Pow2(s)
                ELSE P[i] \div Pow2(s) + (P[i - 1] % Pow2(s)) * Pow2(13 - s)]
        guard == (P[5] \div Pow2(s - 1)) % 2 = 1
        sticky == P[5] % Pow2(s - 1) # 0
    IN Rounded(N, x.E + s, guard /\ (sticky \/ N[5] % 2 = 1))

\* int(x): truncation (x < 2^27)
FloatToInt(x) ==
    IF x.E < 0 THEN 0
    ELSE (x.D[1] * Pow2(26) + x.D[2] * Base + x.D[3]) \div Pow2(26 - x.E)

\* the outcome of a division by zero
ZeroDivisionError == -1

\* int((current / total) * 100) for current >= 0 and total > 0
FloatPercent(current, total) ==
    IF current = 0 THEN 0 ELSE FloatToInt(FloatMul100(FloatDiv(current, total)))

\* the figures of FloatPercent for the counts the runs of the model reach
PercentTable ==
    [current \in 0..MaxCount |-> [total \in 1..MaxCount |-> FloatPercent(current, total)]]

\* int((current / total) * 100)
Percent(current, total) ==
    IF total = 0 THEN ZeroDivisionError
    ELSE IF current \in 0..MaxCount /\ total \in 1..MaxCount THEN PercentTable[current][total]
    ELSE IF total > 0 THEN FloatPercent(current, total)
    ELSE 0 - FloatPercent(current, 0 - total)

ProgressEvent(t, l) ==
    [type |-> "progress", task_id |-> t, current |-> l.current, total |-> l.total,
     percent |-> l.percent, status |-> "processing"]

CompletedEvent(t, l) ==
    [type |-> "completed", task_id |-> t, inserted |-> l.inserted, skipped |-> l.skipped,
     status |-> "completed"]

\* the failure message without the text of the exception
FailedEventWithoutError(t, l) ==
    [type |-> "progress", task_id |-> t, current |-> 0,
     total |-> IF l.total = Unbound THEN 0 ELSE l.total,
     percent |-> 0, status |-> "failed", error |-> ""]

\* the message of the handler: "error": str(e)
FailedEvent(t, l) ==
    [type |-> "progress", task_id |-> t, current |-> 0,
     total |-> IF l.total = Unbound THEN 0 ELSE l.total,
     percent |-> 0, status |-> "failed", error |-> l.e]


(***************************************************************************)
(* Infrastructure failures.  An action takes the set F of the failures     *)
(* that may strike its calls: NoFaults when Redis, MySQL and the disk      *)
(* work, AnyFault when each call may raise.                                *)
(***************************************************************************)
NoFaults == {"none"}

AnyFault == {"none", "open", "update_state", "publish", "commit", "rollback", "backend"}

Site(F, sites) == {"none"} \cup (F \cap sites)

(***************************************************************************)
(* upload_excel                                                            *)
(***************************************************************************)
\* POST /upload-excel with a file named `name` whose content is file `f`
upload_excel(name, f) ==
    /\ IF ~SupportedFormat(name)
       THEN /\ lastUpload' = [code |-> 400, task_id |-> 0]
            /\ UNCHANGED <<fs, nextTask, file_path, loc, upFile>>
       ELSE /\ fs' = [fs EXCEPT ![PathJoin(UPLOAD_DIR, name)] = f]
            /\ nextTask' = nextTask + 1
            /\ file_path' = [file_path EXCEPT ![nextTask'] = PathJoin(UPLOAD_DIR, name)]
            /\ loc' = [loc EXCEPT ![nextTask'].pc = "queued"]
            /\ upFile' = [upFile EXCEPT ![nextTask'] = f]
            /\ lastUpload' = [code |-> 202, task_id |-> nextTask']
    /\ UNCHANGED <<session, users, store, published, reads, lastPoll, hist>>
    /\ UNCHANGED wsVars
    /\ UNCHANGED apiVars

(***************************************************************************)
(* process_excel_task                                                      *)
(***************************************************************************)
\* an exception is raised at position l.pc and caught at line 169
Raise(t, l, err) ==
    loc' = [loc EXCEPT ![t] = [l EXCEPT !.pc = "except", !.e = err, !.at = l.pc]]

\* the worker picks the task up (task_track_started) and the function opens its session
StartTask(t) ==
    /\ loc[t].pc = "queued"
    /\ loc' = [loc EXCEPT ![t].pc = "open"]
    /\ session' = [session EXCEPT ![t] = [ClosedSession EXCEPT !.open = TRUE]]
    /\ store' = [store EXCEPT ![t] = [state |-> "STARTED"]]
    /\ hist' = [hist EXCEPT ![t] =
           [@ EXCEPT !.users0 = users,
                     !.after = {o \in TaskIds : store[o].state = "SUCCESS"}]]
    /\ UNCHANGED <<fs, nextTask, file_path, lastUpload, users, published, reads, upFile, lastPoll>>
    /\ UNCHANGED wsVars
    /\ UNCHANGED apiVars

\* xl = pd.ExcelFile(file_path); sheet_names; total = 0; inserted = 0; skipped = []
OpenFile(t, F) ==
    /\ loc[t].pc = "open"
    /\ \E fault \in Site(F, {"open"}) :
         IF fault = "open"
         THEN /\ Raise(t, loc[t], "FileError")
              /\ UNCHANGED reads
         ELSE /\ loc' = [loc EXCEPT ![t] =
                    [@ EXCEPT !.sheet_names = SheetNames(fs[file_path[t]]),
                              !.total = 0, !.inserted = 0, !.skipped = <<>>,
                              !.si = 1, !.pc = "prescan"]]
              /\ reads' = [reads EXCEPT ![t] = @ \cup {fs[file_path[t]]}]
    /\ UNCHANGED <<fs, nextTask, file_path, lastUpload, session, users, store, published,
                   upFile, lastPoll, hist>>
    /\ UNCHANGED wsVars
    /\ UNCHANGED apiVars

\* CountSheet without the test of the columns
CountEverySheet(total, df) == total + Len(df.rows)

\* if required_columns.issubset(df.columns): total += len(df)
CountSheet(total, df) ==
    IF HasRequiredColumns(df) THEN total + Len(df.rows) ELSE total

\* first loop over sheet_names: one sheet is read and counted
PreScan(t) ==
    LET l == loc[t]
        f == fs[file_path[t]]
        name == l.sheet_names[l.si]
    IN
    /\ l.pc = "prescan"
    /\ IF ~HasSheet(f, name)
       THEN Raise(t, l, "ValueError")
       ELSE LET df == ReadSheet(f, name)
                counted == [l EXCEPT !.total = CountSheet(@, df)]
            IN loc' = [loc EXCEPT ![t] =
                   IF l.si < Len(l.sheet_names)
                   THEN [counted EXCEPT !.si = @ + 1]
                   ELSE [counted EXCEPT !.current = 0, !.si = 1, !.pc = "sheet"]]
    /\ reads' = [reads EXCEPT ![t] = @ \cup {f}]
    /\ UNCHANGED <<fs, nextTask, file_path, lastUpload, session, users, store, published,
                   upFile, lastPoll, hist>>
    /\ UNCHANGED wsVars
    /\ UNCHANGED apiVars

\* the position after the rows of the current sheet
NextSheet(l) ==
    IF l.si < Len(l.sheet_names)
    THEN [l EXCEPT !.si = @ + 1, !.pc = "sheet"]
    ELSE [l EXCEPT !.pc = "commit"]

\* the position after the current row
NextRow(l) ==
    IF l.ri < Len(l.df.rows)
    THEN [l EXCEPT !.ri = @ + 1, !.pc = "row"]
    ELSE NextSheet(l)

\* second loop over sheet_names: the sheet is read again; invalid sheets are ignored
SheetLoop(t) ==
    LET l == loc[t]
        f == fs[file_path[t]]
        name == l.sheet_names[l.si]
    IN
    /\ l.pc = "sheet"
    /\ IF ~HasSheet(f, name)
       THEN Raise(t, l, "ValueError")
       ELSE LET df == ReadSheet(f, name)
            IN loc' = [loc EXCEPT ![t] =
                   IF ~HasRequiredColumns(df) \/ Len(df.rows) = 0
                   THEN NextSheet([l EXCEPT !.sheet_name = name])
                   ELSE [l EXCEPT !.sheet_name = name, !.df = df, !.ri = 1, !.pc = "row"]]
    /\ reads' = [reads EXCEPT ![t] = @ \cup {f}]
    /\ UNCHANGED <<fs, nextTask, file_path, lastUpload, session, users, store, published,
                   upFile, lastPoll, hist>>
    /\ UNCHANGED wsVars
    /\ UNCHANGED apiVars

\* head of the row loop: current += 1, percent, update_state, publish
RowProgress(t, F) ==
    LET l == loc[t]
        counted == [l EXCEPT !.current = @ + 1]
    IN
    /\ l.pc = "row"
    /\ IF l.total = 0
       THEN /\ Raise(t, counted, "ZeroDivisionError")
            /\ UNCHANGED <<store, published>>
       ELSE LET l2 == [counted EXCEPT !.percent = Percent(counted.current, l.total)]
                meta == [current |-> l2.current, total |-> l2.total, percent |-> l2.percent]
            IN \E fault \in Site(F, {"update_state", "publish"}) :
                 /\ store' = IF fault = "update_state" THEN store
                             ELSE [store EXCEPT ![t] = [state |-> "PROGRESS", meta |-> meta]]
                 /\ published' = IF fault = "none"
                                 THEN [published EXCEPT ![t] = Append(@, ProgressEvent(t, l2))]
                                 ELSE published
                 /\ IF fault = "none"
                    THEN loc' = [loc EXCEPT ![t] = [l2 EXCEPT !.pc = "process"]]
                    ELSE Raise(t, l2, "RedisError")
    /\ UNCHANGED <<fs, nextTask, file_path, lastUpload, session, users, reads, upFile, lastPoll, hist>>
    /\ UNCHANGED wsVars
    /\ UNCHANGED apiVars


\* body of the row loop: strip, validate, look the email up, stage the user
RowProcess(t) ==
    LET l == loc[t]
        s == session[t]
        row == l.df.rows[l.ri]
        username == Strip(Str(row.username))
        email == Strip(Str(row.email))
        password == Strip(Str(row.password))
        status == FlushStatus(s.new, s.flushed, t)
        s1 == WithSnapshot(Flushed(s))
    IN
    /\ l.pc = "process"
    /\ IF username = <<>> \/ email = <<>> \/ password = <<>>
       THEN /\ loc' = [loc EXCEPT ![t] = NextRow([l EXCEPT !.skipped =
                         Append(@, [row |-> l.ri, sheet |-> l.sheet_name,
                                    reason |-> "Campos incompletos"])])]
            /\ UNCHANGED session
       ELSE IF status = "duplicate"
       THEN /\ Raise(t, l, "IntegrityError")
            /\ session' = [session EXCEPT ![t] = FlushFailed(s)]
       ELSE IF status = "wait"
       THEN \* the INSERT waits for the other transaction: if that one commits or
            \* rolls back first, the run is in a state the model reaches by another
            \* order of the steps; otherwise the wait ends with a timeout or a
            \* deadlock error
            /\ Raise(t, l, "OperationalError")
            /\ session' = [session EXCEPT ![t] = FlushFailed(s)]
       ELSE IF QueryByEmail(s1, email)
       THEN /\ loc' = [loc EXCEPT ![t] = NextRow([l EXCEPT !.skipped =
                         Append(@, [row |-> l.ri, sheet |-> l.sheet_name,
                                    reason |-> "Duplicado"])])]
            /\ session' = [session EXCEPT ![t] = s1]
       ELSE /\ session' = [session EXCEPT ![t] =
                   [s1 EXCEPT !.new = Append(@, User(username, email, password))]]
            /\ loc' = [loc EXCEPT ![t] =
                   IF (l.inserted + 1) % ChunkSize = 0
                   THEN [l EXCEPT !.inserted = @ + 1, !.pc = "chunk_commit"]
                   ELSE NextRow([l EXCEPT !.inserted = @ + 1])]
    /\ UNCHANGED <<fs, nextTask, file_path, lastUpload, users, store, published, reads,
                   upFile, lastPoll, hist>>
    /\ UNCHANGED wsVars
    /\ UNCHANGED apiVars

\* session.commit(): flush, then COMMIT; `after` is the position when it succeeds
Commit(t, F, after) ==
    LET l == loc[t]
        s == session[t]
        status == FlushStatus(s.new, s.flushed, t)
    IN
    \E fault \in Site(F, {"commit"}) :
      IF fault = "commit"
      THEN /\ Raise(t, l, "DBError")
           /\ session' = [session EXCEPT ![t] = FlushFailed(s)]
           /\ UNCHANGED <<users, hist>>
      ELSE IF status = "duplicate"
      THEN /\ Raise(t, l, "IntegrityError")
           /\ session' = [session EXCEPT ![t] = FlushFailed(s)]
           /\ UNCHANGED <<users, hist>>
      ELSE IF status = "wait"
      THEN /\ Raise(t, l, "OperationalError")
           /\ session' = [session EXCEPT ![t] = FlushFailed(s)]
           /\ UNCHANGED <<users, hist>>
      ELSE /\ users' = users \cup Flushed(s).flushed
           /\ hist' = [hist EXCEPT ![t].committed = @ \cup Flushed(s).flushed]
           /\ session' = [session EXCEPT ![t] = RolledBack(s)]
           /\ loc' = [loc EXCEPT ![t] = after]

\* ChunkCommit without the commit: the loop goes on
ChunkNoCommit(t, F) ==
    /\ loc[t].pc = "chunk_commit"
    /\ loc' = [loc EXCEPT ![t] = NextRow(loc[t])]
    /\ UNCHANGED <<fs, nextTask, file_path, lastUpload, session, users, store, published,
                   reads, upFile, lastPoll, hist>>
    /\ UNCHANGED wsVars
    /\ UNCHANGED apiVars

\* if inserted % 50 == 0: session.commit()
ChunkCommit(t, F) ==
    /\ loc[t].pc = "chunk_commit"
    /\ Commit(t, F, NextRow(loc[t]))
    /\ UNCHANGED <<fs, nextTask, file_path, lastUpload, store, published, reads, upFile, lastPoll>>
    /\ UNCHANGED wsVars
    /\ UNCHANGED apiVars

\* session.commit() after the loops
FinalCommit(t, F) ==
    /\ loc[t].pc = "commit"
    /\ Commit(t, F, [loc[t] EXCEPT !.pc = "completed"])
    /\ UNCHANGED <<fs, nextTask, file_path, lastUpload, store, published, reads, upFile, lastPoll>>
    /\ UNCHANGED wsVars
    /\ UNCHANGED apiVars

\* publish the completed message and return the result
PublishCompleted(t, F) ==
    LET l == loc[t] IN
    /\ l.pc = "completed"
    /\ \E fault \in Site(F, {"publish"}) :
         IF fault = "publish"
         THEN /\ Raise(t, l, "RedisError")
              /\ UNCHANGED published
         ELSE /\ published' = [published EXCEPT ![t] = Append(@, CompletedEvent(t, l))]
              /\ loc' = [loc EXCEPT ![t] =
                     [l EXCEPT !.pc = "finally",
                               !.result = [status |-> "completed", rows |-> l.inserted,
                                           skipped |-> l.skipped, error |-> ""]]]
    /\ UNCHANGED <<fs, nextTask, file_path, lastUpload, session, users, store, reads,
                   upFile, lastPoll, hist>>
    /\ UNCHANGED wsVars
    /\ UNCHANGED apiVars

\* the handler when the failure message is published whatever the rollback does
HandleExceptionPublishing(t, F) ==
    LET l == loc[t]
        raised(status, err) ==
            [l EXCEPT !.pc = "finally",
                      !.result = [NoResult EXCEPT !.status = status, !.error = err]]
    IN
    /\ l.pc = "except"
    /\ \E fault \in Site(F, {"rollback", "publish"}) :
         /\ session' = IF fault = "rollback" THEN session
                       ELSE [session EXCEPT ![t] = RolledBack(@)]
         /\ published' = IF fault # "publish"
                         THEN [published EXCEPT ![t] = Append(@, FailedEvent(t, l))]
                         ELSE published
         /\ loc' = [loc EXCEPT ![t] =
                CASE fault = "rollback" -> raised("handler_raised", "DBError")
                  [] fault = "publish" -> raised("handler_raised", "RedisError")
                  [] OTHER -> raised("raised", l.e)]
    /\ UNCHANGED <<fs, nextTask, file_path, lastUpload, users, store, reads, upFile, lastPoll, hist>>
    /\ UNCHANGED wsVars
    /\ UNCHANGED apiVars

\* except Exception as e: session.rollback(); publish the failure message; raise e
HandleException(t, F) ==
    LET l == loc[t]
        raised(status, err) ==
            [l EXCEPT !.pc = "finally",
                      !.result = [NoResult EXCEPT !.status = status, !.error = err]]
    IN
    /\ l.pc = "except"
    /\ \E fault \in Site(F, {"rollback", "publish"}) :
         /\ session' = IF fault = "rollback" THEN session
                       ELSE [session EXCEPT ![t] = RolledBack(@)]
         /\ published' = IF fault = "none"
                         THEN [published EXCEPT ![t] = Append(@, FailedEvent(t, l))]
                         ELSE published
         /\ loc' = [loc EXCEPT ![t] =
                CASE fault = "rollback" -> raised("handler_raised", "DBError")
                  [] fault = "publish" -> raised("handler_raised", "RedisError")
                  [] OTHER -> raised("raised", l.e)]
    /\ UNCHANGED <<fs, nextTask, file_path, lastUpload, users, store, reads, upFile, lastPoll, hist>>
    /\ UNCHANGED wsVars
    /\ UNCHANGED apiVars

\* finally without the worker storing the outcome of the task
FinallyWithoutOutcome(t) ==
    /\ loc[t].pc = "finally"
    /\ session' = [session EXCEPT ![t] = [RolledBack(@) EXCEPT !.open = FALSE]]
    /\ loc' = [loc EXCEPT ![t] =
           [InitLoc EXCEPT !.pc = "done", !.e = loc[t].e, !.at = loc[t].at,
                           !.result = loc[t].result]]
    /\ hist' = [hist EXCEPT ![t] = [@ EXCEPT !.users1 = users]]
    /\ UNCHANGED <<fs, nextTask, file_path, lastUpload, users, store, published, reads,
                   upFile, lastPoll>>
    /\ UNCHANGED wsVars
    /\ UNCHANGED apiVars

\* finally: session.close(); then the worker stores the outcome of the task
Finally(t) ==
    LET l == loc[t] IN
    /\ l.pc = "finally"
    /\ session' = [session EXCEPT ![t] = [RolledBack(@) EXCEPT !.open = FALSE]]
    /\ store' = [store EXCEPT ![t] =
           IF l.result.status = "completed"
           THEN [state |-> "SUCCESS",
                 result |-> [status |-> l.result.status, rows |-> l.result.rows,
                             skipped |-> l.result.skipped]]
           ELSE [state |-> "FAILURE", error |-> l.result.error]]
    /\ loc' = [loc EXCEPT ![t] =
           [InitLoc EXCEPT !.pc = "done", !.e = l.e, !.at = l.at, !.result = l.result]]
    /\ hist' = [hist EXCEPT ![t] = [@ EXCEPT !.users1 = users]]
    /\ UNCHANGED <<fs, nextTask, file_path, lastUpload, users, published, reads, upFile, lastPoll>>
    /\ UNCHANGED wsVars
    /\ UNCHANGED apiVars

\* the steps of a run that stages fewer than 50 inserts
ImportSteps(t, F) ==
    \/ StartTask(t)
    \/ OpenFile(t, F)
    \/ PreScan(t)
    \/ SheetLoop(t)
    \/ RowProgress(t, F)
    \/ RowProcess(t)
    \/ FinalCommit(t, F)
    \/ PublishCompleted(t, F)
    \/ HandleException(t, F)
    \/ Finally(t)

process_excel_task(t, F) ==
    \/ ImportSteps(t, F)
    \/ ChunkCommit(t, F)

(***************************************************************************)
(* process_excel_preview_task                                              *)
(***************************************************************************)
\* df.columns = [str(c).strip().lower() ...]; required_columns.issubset(set(df.columns))
PreviewHasRequiredColumns(sheet) ==
    required_columns \subseteq {Lower(Strip(sheet.columns[i])) : i \in 1..Len(sheet.columns)}

AllNaN(row) ==
    row.username.kind = "nan" /\ row.email.kind = "nan" /\ row.password.kind = "nan"

KeepRow(row) == ~AllNaN(row)

\* df[list(required_columns)].dropna(how='all')
DropNaAll(rows) == SelectSeq(rows, KeepRow)

\* records[:n]
Take(q, n) == SubSeq(q, 1, IF Len(q) < n THEN Len(q) ELSE n)

\* the entry of a valid sheet in valid_sheets
SheetPreview(sheet) ==
    [sheet_name |-> sheet.name, total_rows |-> Len(DropNaAll(sheet.rows)),
     preview |-> Take(Take(DropNaAll(sheet.rows), 100), 10),
     data |-> Take(DropNaAll(sheet.rows), 100)]

PreviewFailedEvent(t, err) ==
    [type |-> "preview", task_id |-> t, status |-> "failed", error |-> err]

PreviewReadyEvent(t, l) ==
    [type |-> "preview", task_id |-> t, status |-> "ready", sheets |-> l.valid_sheets,
     total_sheets |-> Len(l.sheet_names), valid_sheets |-> Len(l.valid_sheets)]

\* an exception reaches the handler at line 257
PreviewRaise(t, l, err) ==
    loc' = [loc EXCEPT ![t] = [l EXCEPT !.pc = "pv_except", !.e = err, !.at = l.pc]]

\* a producer sends process_excel_preview_task for a path of the upload directory
send_preview(path) ==
    /\ nextTask' = nextTask + 1
    /\ file_path' = [file_path EXCEPT ![nextTask'] = path]
    /\ loc' = [loc EXCEPT ![nextTask'].pc = "pv_queued"]
    /\ UNCHANGED <<fs, lastUpload, session, users, store, published, reads, upFile,
                   lastPoll, hist>>
    /\ UNCHANGED wsVars
    /\ UNCHANGED apiVars

\* the worker picks the preview task up
PreviewStart(t) ==
    /\ loc[t].pc = "pv_queued"
    /\ loc' = [loc EXCEPT ![t].pc = "pv_open"]
    /\ UNCHANGED <<fs, nextTask, file_path, lastUpload, session, users, store, published,
                   reads, upFile, lastPoll, hist>>
    /\ UNCHANGED wsVars
    /\ UNCHANGED apiVars

\* xl = pd.ExcelFile(file_path); sheet_names; valid_sheets = []
PreviewOpen(t, F) ==
    /\ loc[t].pc = "pv_open"
    /\ \E fault \in Site(F, {"open"}) :
         IF fault = "open" \/ fs[file_path[t]] = 0
         THEN PreviewRaise(t, loc[t], "FileError")
         ELSE loc' = [loc EXCEPT ![t] =
                 [@ EXCEPT !.sheet_names = SheetNames(fs[file_path[t]]),
                           !.valid_sheets = <<>>, !.si = 1, !.pc = "pv_sheet"]]
    /\ UNCHANGED <<fs, nextTask, file_path, lastUpload, session, users, store, published,
                   reads, upFile, lastPoll, hist>>
    /\ UNCHANGED wsVars
    /\ UNCHANGED apiVars

\* one turn of the loop over sheet_names; an exception of the turn is logged
PreviewSheet(t) ==
    LET l == loc[t]
        f == fs[file_path[t]]
        name == l.sheet_names[l.si]
        found == IF HasSheet(f, name) /\ PreviewHasRequiredColumns(ReadSheet(f, name))
                 THEN [l EXCEPT !.valid_sheets = Append(@, SheetPreview(ReadSheet(f, name)))]
                 ELSE l
    IN
    /\ l.pc = "pv_sheet"
    /\ loc' = [loc EXCEPT ![t] =
           IF l.si < Len(l.sheet_names)
           THEN [found EXCEPT !.si = @ + 1]
           ELSE [found EXCEPT !.pc = "pv_publish"]]
    /\ UNCHANGED <<fs, nextTask, file_path, lastUpload, session, users, store, published,
                   reads, upFile, lastPoll, hist>>
    /\ UNCHANGED wsVars
    /\ UNCHANGED apiVars

\* publish the failed message (no valid sheet) or the preview
PreviewPublish(t, F) ==
    LET l == loc[t] IN
    /\ l.pc = "pv_publish"
    /\ \E fault \in Site(F, {"publish"}) :
         IF fault = "publish"
         THEN /\ PreviewRaise(t, l, "RedisError")
              /\ UNCHANGED published
         ELSE /\ published' = [published EXCEPT ![t] = Append(@,
                     IF l.valid_sheets = <<>>
                     THEN PreviewFailedEvent(t, "Ninguna hoja tiene las columnas requeridas")
                     ELSE PreviewReadyEvent(t, l))]
              /\ loc' = [loc EXCEPT ![t].pc = "pv_update_state"]
    /\ UNCHANGED <<fs, nextTask, file_path, lastUpload, session, users, store, reads,
                   upFile, lastPoll, hist>>
    /\ UNCHANGED wsVars
    /\ UNCHANGED apiVars

\* self.update_state(state="FAILURE", ...) or self.update_state(state="SUCCESS", ...),
\* then return
PreviewUpdateState(t, F) ==
    LET l == loc[t] IN
    /\ l.pc = "pv_update_state"
    /\ \E fault \in Site(F, {"update_state"}) :
         IF fault = "update_state"
         THEN /\ PreviewRaise(t, l, "RedisError")
              /\ UNCHANGED store
         ELSE /\ store' = [store EXCEPT ![t] =
                     IF l.valid_sheets = <<>>
                     THEN [state |-> "FAILURE", error |-> "Sin hojas validas"]
                     ELSE [state |-> "SUCCESS",
                           result |-> [valid_sheets |-> Len(l.valid_sheets)]]]
              /\ loc' = [loc EXCEPT ![t] =
                     [l EXCEPT !.pc = "pv_finish",
                               !.result = IF l.valid_sheets = <<>>
                                          THEN [NoResult EXCEPT !.status = "failed",
                                                                !.error = "Sin hojas validas"]
                                          ELSE [NoResult EXCEPT !.status = "success"]]]
    /\ UNCHANGED <<fs, nextTask, file_path, lastUpload, session, users, published, reads,
                   upFile, lastPoll, hist>>
    /\ UNCHANGED wsVars
    /\ UNCHANGED apiVars

\* except Exception as e: publish the failed message; raise
PreviewHandleException(t, F) ==
    LET l == loc[t]
        raised(status, err) ==
            [l EXCEPT !.pc = "pv_finish",
                      !.result = [NoResult EXCEPT !.status = status, !.error = err]]
    IN
    /\ l.pc = "pv_except"
    /\ \E fault \in Site(F, {"publish"}) :
         /\ published' = IF fault = "none"
                         THEN [published EXCEPT ![t] = Append(@, PreviewFailedEvent(t, l.e))]
                         ELSE published
         /\ loc' = [loc EXCEPT ![t] =
                IF fault = "publish" THEN raised("handler_raised", "RedisError")
                ELSE raised("raised", l.e)]
    /\ UNCHANGED <<fs, nextTask, file_path, lastUpload, session, users, store, reads,
                   upFile, lastPoll, hist>>
    /\ UNCHANGED wsVars
    /\ UNCHANGED apiVars

\* the function has returned or raised: the worker stores the outcome of the task
PreviewFinish(t) ==
    LET l == loc[t] IN
    /\ l.pc = "pv_finish"
    /\ store' = [store EXCEPT ![t] =
           CASE l.result.status = "failed" ->
                  [state |-> "SUCCESS",
                   result |-> [status |-> "failed", error |-> l.result.error]]
             [] l.result.status = "success" ->
                  [state |-> "SUCCESS",
                   result |-> [status |-> "success", valid_sheets |-> Len(l.valid_sheets)]]
             [] OTHER -> [state |-> "FAILURE", error |-> l.result.error]]
    /\ loc' = [loc EXCEPT ![t] =
           [InitLoc EXCEPT !.pc = "done", !.e = l.e, !.at = l.at, !.result = l.result]]
    /\ UNCHANGED <<fs, nextTask, file_path, lastUpload, session, users, published, reads,
                   upFile, lastPoll, hist>>
    /\ UNCHANGED wsVars
    /\ UNCHANGED apiVars

process_excel_preview_task(t, F) ==
    \/ PreviewStart(t)
    \/ PreviewOpen(t, F)
    \/ PreviewSheet(t)
    \/ PreviewPublish(t, F)
    \/ PreviewUpdateState(t, F)
    \/ PreviewHandleException(t, F)
    \/ PreviewFinish(t)

(***************************************************************************)
(* get_task_status                                                         *)
(***************************************************************************)
\* result.get("rows", 0)
GetRows(result) == IF "rows" \in DOMAIN result THEN result.rows ELSE 0

\* the percent without the test of total
PollPercentUnguarded(current, total) == Percent(current, total)

\* percent = int((current / total) * 100) if total > 0 else 0
PollPercent(current, total) ==
    IF total > 0 THEN Percent(current, total) ELSE 0

\* the answer of GET /task-status/{task_id} for the backend entry `entry`
get_task_status(entry) ==
    CASE entry.state = "PENDING" ->
           [code |-> 202, state |-> entry.state, current |-> 0, total |-> 1, percent |-> 0]
      [] entry.state = "PROGRESS" ->
           [code |-> 202, state |-> entry.state,
            current |-> entry.meta.current, total |-> entry.meta.total,
            percent |-> PollPercent(entry.meta.current, entry.meta.total)]
      [] entry.state = "SUCCESS" ->
           [code |-> 200, state |-> entry.state, current |-> GetRows(entry.result),
            total |-> GetRows(entry.result), percent |-> 100]
      [] entry.state = "FAILURE" ->
           [code |-> 500, state |-> entry.state, current |-> 0, total |-> 1, percent |-> 0]
      [] OTHER ->
           [code |-> 202, state |-> entry.state, current |-> 0, total |-> 1, percent |-> 0]

\* an id no upload has returned
UnknownId == 0

\* the ids a client may poll
PollIds == {UnknownId} \cup 1..PollTasks

NoPoll == [id |-> UnknownId, missing |-> FALSE, code |-> 0, state |-> "", current |-> 0,
           total |-> 0, percent |-> 0]

\* AsyncResult(task_id, app=celery_app): the backend answers PENDING for an id
\* it holds no entry for
AsyncResult(id) == IF id \in TaskIds THEN store[id] ELSE Pending

\* the store holds no entry for the id: it was never created, or its result expired
Missing(id) ==
    \/ id \notin 1..nextTask
    \/ loc[id].pc = "done" /\ store[id] = Pending

\* GET /task-status/{id}; the backend may be unreachable (except branch)
Poll(id, F) ==
    /\ \E fault \in Site(F, {"backend"}) :
         LET r == get_task_status(AsyncResult(id)) IN
         lastPoll' = IF fault = "backend"
                     THEN [NoPoll EXCEPT !.id = id, !.missing = Missing(id), !.code = 500,
                                         !.state = "ERROR"]
                     ELSE [id |-> id, missing |-> Missing(id), code |-> r.code,
                           state |-> r.state, current |-> r.current, total |-> r.total,
                           percent |-> r.percent]
    /\ UNCHANGED <<fs, nextTask, file_path, lastUpload, loc, session, users, store,
                   published, reads, upFile, hist>>
    /\ UNCHANGED wsVars
    /\ UNCHANGED apiVars

\* result_expires = 3600: the backend drops the stored outcome of a finished task
Expire(t) ==
    /\ loc[t].pc = "done"
    /\ store[t].state \in {"SUCCESS", "FAILURE"}
    /\ store' = [store EXCEPT ![t] = Pending]
    /\ UNCHANGED <<fs, nextTask, file_path, lastUpload, loc, session, users, published,
                   reads, upFile, lastPoll, hist>>
    /\ UNCHANGED wsVars
    /\ UNCHANGED apiVars

(***************************************************************************)
(* ConnectionManager and websocket_notify                                  *)
(***************************************************************************)
Conns == 1..MaxConns

Broadcasts == 1..MaxBroadcasts

\* a removal that takes the head of the list, whatever it is
RemoveHead(list, x) == IF list = <<>> THEN list ELSE Tail(list)

RECURSIVE RemoveFirst(_, _)
RemoveFirst(list, x) ==
    IF list = <<>> THEN list
    ELSE IF Head(list) = x THEN Tail(list)
    ELSE <<Head(list)>> \o RemoveFirst(Tail(list), x)

\* list.remove(x): removes the first occurrence, ValueError when there is none
ListRemove(list, x) ==
    IF x \in SeqToSet(list)
    THEN [raised |-> FALSE, list |-> RemoveFirst(list, x)]
    ELSE [raised |-> TRUE, list |-> list]

\* disconnect without the try/except around remove
disconnect_unguarded(list, ws) == ListRemove(list, ws)

\* ConnectionManager.disconnect: the ValueError is swallowed
disconnect(list, ws) == [ListRemove(list, ws) EXCEPT !.raised = FALSE]

IdleBroadcast ==
    [pc |-> "idle", snapshot |-> <<>>, i |-> 0, delivered |-> <<>>, failed |-> {}]

\* websocket_notify: ws_manager.connect (accept, then append), or accept raises
connect(c) ==
    /\ conn[c] = "new"
    /\ \E accepted \in BOOLEAN :
         IF accepted
         THEN /\ active_connections' = Append(active_connections, c)
              /\ conn' = [conn EXCEPT ![c] = "open"]
         ELSE /\ conn' = [conn EXCEPT ![c] = "closed"]
              /\ UNCHANGED active_connections
    /\ UNCHANGED bc
    /\ UNCHANGED pipeVars
    /\ UNCHANGED apiVars
    /\ UNCHANGED relayVars

\* websocket_notify: receive_text raises, the handler calls ws_manager.disconnect
notify_disconnect(c) ==
    /\ conn[c] = "open"
    /\ active_connections' = disconnect(active_connections, c).list
    /\ conn' = [conn EXCEPT ![c] = "closed"]
    /\ UNCHANGED bc
    /\ UNCHANGED pipeVars
    /\ UNCHANGED apiVars
    /\ UNCHANGED relayVars

\* broadcast is called: the loop iterates over a copy of the list
broadcast_start(b) ==
    /\ bc[b].pc = "idle"
    /\ bc' = [bc EXCEPT ![b] =
           [@ EXCEPT !.snapshot = active_connections, !.i = 1,
                     !.pc = IF active_connections = <<>> THEN "done" ELSE "sending"]]
    /\ UNCHANGED <<active_connections, conn>>
    /\ UNCHANGED pipeVars
    /\ UNCHANGED apiVars
    /\ UNCHANGED relayVars

\* a broadcast that sends the message twice to a connection
broadcast_send_twice(b) ==
    LET l == bc[b]
        ws == l.snapshot[l.i]
        next == IF l.i < Len(l.snapshot)
                THEN [l EXCEPT !.i = @ + 1]
                ELSE [l EXCEPT !.pc = "done"]
    IN
    /\ l.pc = "sending"
    /\ bc' = [bc EXCEPT ![b] = [next EXCEPT !.delivered = Append(Append(@, ws), ws)]]
    /\ UNCHANGED <<active_connections, conn>>
    /\ UNCHANGED pipeVars
    /\ UNCHANGED apiVars
    /\ UNCHANGED relayVars

\* the awaited send to the i-th connection of the copy returns or raises
broadcast_send(b) ==
    LET l == bc[b]
        ws == l.snapshot[l.i]
        next == IF l.i < Len(l.snapshot)
                THEN [l EXCEPT !.i = @ + 1]
                ELSE [l EXCEPT !.pc = "done"]
    IN
    /\ l.pc = "sending"
    /\ \E sent \in BOOLEAN :
         IF sent
         THEN /\ bc' = [bc EXCEPT ![b] = [next EXCEPT !.delivered = Append(@, ws)]]
              /\ UNCHANGED active_connections
         ELSE LET d == disconnect(active_connections, ws) IN
              /\ active_connections' = d.list
              /\ bc' = [bc EXCEPT ![b] =
                     IF d.raised
                     THEN [l EXCEPT !.failed = @ \cup {ws}, !.pc = "raised"]
                     ELSE [next EXCEPT !.failed = @ \cup {ws}]]
    /\ UNCHANGED conn
    /\ UNCHANGED pipeVars
    /\ UNCHANGED apiVars
    /\ UNCHANGED relayVars

(***************************************************************************)
(* startup_event, redis_listener, shutdown_event                           *)
(***************************************************************************)
\* json.dumps: the text that serialises obj
JsonDumps(obj) == <<"json", obj>>

\* a decoder that numbers the tasks itself
JsonLoadsRenumbered(data) ==
    IF data[1] = "json" THEN [raised |-> FALSE, value |-> [data[2] EXCEPT !.task_id = 0]]
    ELSE [raised |-> TRUE, value |-> <<>>]

\* json.loads: the object a JSON text serialises, JSONDecodeError otherwise
JsonLoads(data) ==
    IF data[1] = "json" THEN [raised |-> FALSE, value |-> data[2]]
    ELSE [raised |-> TRUE, value |-> <<>>]

\* what reaches the subscription and no worker published: the confirmation of
\* the subscription and a text that is not JSON
Noise ==
    { [type |-> "subscribe", data |-> <<"int", 1>>],
      [type |-> "message", data |-> <<"text", "{">>] }

InitRelay ==
    [pc |-> "init", redis |-> "none", pubsub |-> "none", cancel |-> "no",
     exc |-> "", data |-> <<>>, snapshot |-> <<>>, i |-> 0, delivered |-> {},
     dropped |-> FALSE]

\* the states of the relay
RelayState(r) ==
    CASE r.pc = "init" -> "NONE"
      [] r.pc \in {"from_url", "subscribe"} -> "STARTING"
      [] r.pc \in {"listen", "broadcast"} -> "LISTENING"
      [] r.pc \in {"finally", "unsubscribe", "pubsub_close", "redis_close"} -> "DRAINING"
      [] OTHER -> "STOPPED"

\* task.cancel() was called: the await the listener is suspended at raises
\* CancelledError
Cancelled(r) == r.cancel = "requested"

\* a listener that connects again after an exception
RelayReconnect(r, exc) ==
    [r EXCEPT !.pc = IF exc = "CancelledError" THEN "finally" ELSE "from_url", !.exc = exc,
              !.cancel = IF exc = "CancelledError" THEN "delivered" ELSE @]

\* an exception leaves the try block: except CancelledError / except Exception,
\* then the finally block
RelayExit(r, exc) ==
    [r EXCEPT !.pc = "finally", !.exc = exc,
              !.cancel = IF exc = "CancelledError" THEN "delivered" ELSE @]

\* the coroutine has ended: its locals are gone
RelayEnd(r) ==
    [InitRelay EXCEPT !.pc = "stopped", !.redis = r.redis, !.pubsub = r.pubsub,
                      !.cancel = r.cancel, !.exc = r.exc, !.dropped = r.dropped]

\* CancelledError leaves the finally block: it is no Exception
RelayAbort(r) ==
    RelayEnd([r EXCEPT !.exc = "CancelledError", !.cancel = "delivered"])

\* the subscription after a step of the listener
Subscription(r) == IF r.pc = "stopped" THEN [t \in TaskIds |-> 0] ELSE cursor

\* startup_event: the listener task is created and startup returns
startup_event ==
    /\ lifecycle.startup = "idle"
    /\ lifecycle' = [lifecycle EXCEPT !.startup = "done"]
    /\ relay' = [relay EXCEPT !.pc = "from_url"]
    /\ UNCHANGED <<cursor, active_connections, conn, bc>>
    /\ UNCHANGED pipeVars
    /\ UNCHANGED apiVars

\* redis = await aioredis.from_url(...); pubsub = redis.pubsub()
RelayFromUrl(F) ==
    /\ relay.pc = "from_url"
    /\ \E fault \in Site(F, {"connection"}) :
         relay' = IF Cancelled(relay) THEN RelayExit(relay, "CancelledError")
                  ELSE IF fault = "none"
                  THEN [relay EXCEPT !.redis = "open", !.pubsub = "open", !.pc = "subscribe"]
                  ELSE RelayExit(relay, "ConnectionError")
    /\ UNCHANGED <<cursor, lifecycle, active_connections, conn, bc>>
    /\ UNCHANGED pipeVars
    /\ UNCHANGED apiVars

\* await pubsub.subscribe("progress_channel"): what was published before is
\* not delivered
RelaySubscribe(F) ==
    /\ relay.pc = "subscribe"
    /\ \E fault \in Site(F, {"connection"}) :
         IF Cancelled(relay)
         THEN relay' = RelayExit(relay, "CancelledError") /\ UNCHANGED cursor
         ELSE IF fault = "none"
         THEN /\ relay' = [relay EXCEPT !.pubsub = "subscribed", !.pc = "listen"]
              /\ cursor' = [t \in TaskIds |-> Len(published[t])]
         ELSE relay' = RelayExit(relay, "ConnectionError") /\ UNCHANGED cursor
    /\ UNCHANGED <<lifecycle, active_connections, conn, bc>>
    /\ UNCHANGED pipeVars
    /\ UNCHANGED apiVars

\* the body of the loop without the except clauses around json.loads
RelayHandleUnguarded(r, message) ==
    LET decoded == JsonLoads(message.data) IN
    IF message.type # "message" THEN r
    ELSE IF decoded.raised
    THEN [r EXCEPT !.dropped = TRUE, !.pc = "finally", !.exc = "JSONDecodeError"]
    ELSE IF active_connections = <<>>
    THEN [r EXCEPT !.data = decoded.value, !.delivered = {}]
    ELSE [r EXCEPT !.pc = "broadcast", !.data = decoded.value, !.delivered = {},
                   !.snapshot = active_connections, !.i = 1]

\* the body of the loop for one message up to its first await: the test of
\* the type, json.loads, the start of ws_manager.broadcast
RelayHandle(r, message) ==
    LET decoded == JsonLoads(message.data) IN
    IF message.type # "message" THEN r
    ELSE IF decoded.raised THEN [r EXCEPT !.dropped = TRUE]
    ELSE IF active_connections = <<>>
    THEN [r EXCEPT !.data = decoded.value, !.delivered = {}]
    ELSE [r EXCEPT !.pc = "broadcast", !.data = decoded.value, !.delivered = {},
                   !.snapshot = active_connections, !.i = 1]

\* async for message in pubsub.listen(): the next message of a worker, a
\* message of no worker, or the connection fails
RelayListen(F) ==
    /\ relay.pc = "listen"
    /\ \/ /\ Cancelled(relay)
          /\ relay' = RelayExit(relay, "CancelledError")
          /\ UNCHANGED cursor
       \/ /\ ~Cancelled(relay)
          /\ \E t \in TaskIds :
               /\ cursor[t] < Len(published[t])
               /\ cursor' = [cursor EXCEPT ![t] = @ + 1]
               /\ relay' = RelayHandle(relay,
                      [type |-> "message", data |-> JsonDumps(published[t][cursor[t] + 1])])
       \/ /\ ~Cancelled(relay)
          /\ \E message \in Noise : relay' = RelayHandle(relay, message)
          /\ UNCHANGED cursor
       \/ /\ ~Cancelled(relay)
          /\ "connection" \in F
          /\ relay' = RelayExit(relay, "ConnectionError")
          /\ UNCHANGED cursor
    /\ UNCHANGED <<lifecycle, active_connections, conn, bc>>
    /\ UNCHANGED pipeVars
    /\ UNCHANGED apiVars

\* the listener back at the head of the loop
RelayNext(r) ==
    IF r.i < Len(r.snapshot) THEN [r EXCEPT !.i = @ + 1]
    ELSE [r EXCEPT !.pc = "listen", !.snapshot = <<>>, !.i = 0]

\* await ws_manager.broadcast(data): the awaited send to the i-th connection of
\* the copy returns or raises; an exception that leaves broadcast is logged
RelayBroadcast(F) ==
    LET ws == relay.snapshot[relay.i] IN
    /\ relay.pc = "broadcast"
    /\ \E outcome \in {"sent", "send_raised"} \cup (F \cap {"broadcast"}) :
         IF Cancelled(relay)
         THEN /\ relay' = RelayExit(relay, "CancelledError")
              /\ UNCHANGED active_connections
         ELSE CASE outcome = "sent" ->
                     /\ relay' = RelayNext([relay EXCEPT !.delivered = @ \cup {ws}])
                     /\ UNCHANGED active_connections
                [] outcome = "send_raised" ->
                     /\ active_connections' = disconnect(active_connections, ws).list
                     /\ relay' = RelayNext(relay)
                [] OTHER ->
                     /\ relay' = [relay EXCEPT !.pc = "listen", !.snapshot = <<>>, !.i = 0]
                     /\ UNCHANGED active_connections
    /\ UNCHANGED <<cursor, lifecycle, conn, bc>>
    /\ UNCHANGED pipeVars
    /\ UNCHANGED apiVars

\* the position after the pubsub part of the finally block
AfterPubsub(r) == IF r.redis # "none" THEN [r EXCEPT !.pc = "redis_close"] ELSE RelayEnd(r)

\* finally: if pubsub ... if redis ...
RelayFinally ==
    /\ relay.pc = "finally"
    /\ relay' = IF relay.pubsub # "none" THEN [relay EXCEPT !.pc = "unsubscribe"]
                ELSE AfterPubsub(relay)
    /\ cursor' = Subscription(relay')
    /\ UNCHANGED <<lifecycle, active_connections, conn, bc>>
    /\ UNCHANGED pipeVars
    /\ UNCHANGED apiVars

\* await pubsub.unsubscribe("progress_channel"), inside try/except Exception
RelayUnsubscribe(F) ==
    /\ relay.pc = "unsubscribe"
    /\ \E fault \in Site(F, {"cleanup"}) :
         relay' = IF Cancelled(relay) THEN RelayAbort(relay)
                  ELSE IF fault = "none"
                  THEN [relay EXCEPT !.pubsub = "unsubscribed", !.pc = "pubsub_close"]
                  ELSE AfterPubsub(relay)
    /\ cursor' = Subscription(relay')
    /\ UNCHANGED <<lifecycle, active_connections, conn, bc>>
    /\ UNCHANGED pipeVars
    /\ UNCHANGED apiVars

\* await pubsub.close()
RelayPubsubClose(F) ==
    /\ relay.pc = "pubsub_close"
    /\ \E fault \in Site(F, {"cleanup"}) :
         relay' = IF Cancelled(relay) THEN RelayAbort(relay)
                  ELSE IF fault = "none" THEN AfterPubsub([relay EXCEPT !.pubsub = "closed"])
                  ELSE AfterPubsub(relay)
    /\ cursor' = Subscription(relay')
    /\ UNCHANGED <<lifecycle, active_connections, conn, bc>>
    /\ UNCHANGED pipeVars
    /\ UNCHANGED apiVars

\* await redis.close(), inside try/except Exception
RelayRedisClose(F) ==
    /\ relay.pc = "redis_close"
    /\ \E fault \in Site(F, {"cleanup"}) :
         relay' = IF Cancelled(relay) THEN RelayAbort(relay)
                  ELSE IF fault = "none" THEN RelayEnd([relay EXCEPT !.redis = "closed"])
                  ELSE RelayEnd([relay EXCEPT !.redis = "close_raised"])
    /\ cursor' = Subscription(relay')
    /\ UNCHANGED <<lifecycle, active_connections, conn, bc>>
    /\ UNCHANGED pipeVars
    /\ UNCHANGED apiVars

redis_listener(F) ==
    \/ RelayFromUrl(F)
    \/ RelaySubscribe(F)
    \/ RelayListen(F)
    \/ RelayBroadcast(F)
    \/ RelayFinally
    \/ RelayUnsubscribe(F)
    \/ RelayPubsubClose(F)
    \/ RelayRedisClose(F)

\* shutdown_event: cancel the tasks of background_tasks, then await them
shutdown_event ==
    /\ lifecycle.startup = "done"
    /\ lifecycle.shutdown = "idle"
    /\ IF relay.pc = "stopped"
       THEN /\ lifecycle' = [lifecycle EXCEPT !.shutdown = "returned"]
            /\ UNCHANGED relay
       ELSE /\ lifecycle' = [lifecycle EXCEPT !.shutdown = "waiting"]
            /\ relay' = [relay EXCEPT !.cancel = "requested"]
    /\ UNCHANGED <<cursor, active_connections, conn, bc>>
    /\ UNCHANGED pipeVars
    /\ UNCHANGED apiVars

\* await asyncio.gather(*background_tasks, return_exceptions=True) returns
shutdown_return ==
    /\ lifecycle.shutdown = "waiting"
    /\ relay.pc = "stopped"
    /\ lifecycle' = [lifecycle EXCEPT !.shutdown = "returned"]
    /\ UNCHANGED <<relay, cursor, active_connections, conn, bc>>
    /\ UNCHANGED pipeVars
    /\ UNCHANGED apiVars

(***************************************************************************)
(* The user endpoints of main.py.  Their sessions come from get_db         *)
(* (sessionmaker(autocommit=False, autoflush=False)): nothing is INSERTed  *)
(* before commit().  Rows these endpoints create carry the columns id and  *)
(* role_id; rows of process_excel_task are kept with the three columns it  *)
(* sets (their id is not tracked, their role_id is NULL).                  *)
(***************************************************************************)
Requests == 1..MaxRequests

bob == <<"b", "o", "b">>

Administrador == <<"A", "d", "m", "i", "n", "i", "s", "t", "r", "a", "d", "o", "r">>
Cliente == <<"C", "l", "i", "e", "n", "t", "e">>

\* the roles table as list_roles seeds it
Roles == {[id |-> 1, nombre |-> Administrador], [id |-> 2, nombre |-> Cliente]}

\* JSON bodies of POST /auth/register and POST /users: the three fields of
\* tests/test_users.py, and the same with a role_id (3 is the id of no role)
UserBodies ==
    {[username |-> u, email |-> e, password |-> pw1] :
        u \in {ana, bob}, e \in {ana_mail, bob_mail}}
    \cup {[username |-> b[1], email |-> b[2], password |-> pw1, role_id |-> b[3]] :
            b \in {ana, bob} \X {ana_mail, bob_mail} \X {1, 2, 3}}

\* JSON bodies of POST /auth/login
Logins == {[email |-> e, password |-> p] : e \in {ana_mail, bob_mail}, p \in {pw1, pw2}}

\* JSON bodies of PUT /users/{user_id}: the fields left out are None
UserUpdates == {[username |-> bob], [email |-> ana_mail], [email |-> bob_mail, password |-> pw2]}

\* path parameters user_id
UserIds == 1..(MaxId + 1)

NoData == <<>>

NoResponse == [status |-> 0, data |-> NoData]

\* db: the session of the request; row: the User object the handler loaded;
\* i, inserted, skipped: locals of import_validated_data; broken: its session
\* awaits a rollback after a failed flush; resp: the response of the call
IdleRequest ==
    [pc |-> "idle", op |-> "none", arg |-> <<>>, db |-> ClosedSession, row |-> <<>>,
     i |-> 0, inserted |-> 0, skipped |-> <<>>, broken |-> FALSE, resp |-> NoResponse]

\* the pipeline's variables that the user endpoints leave alone
importVars == <<fs, nextTask, file_path, lastUpload, loc, session, store, published,
                reads, upFile, lastPoll, hist>>

\* endpoint op is called with input arg: get_db opens the session
Call(op, arg) == [IdleRequest EXCEPT !.op = op, !.arg = arg, !.db.open = TRUE]

\* the handler returns or raises an HTTPException, and get_db closes the session
Respond(q, status, data) ==
    [q EXCEPT !.pc = "idle", !.db = ClosedSession, !.resp = [status |-> status, data |-> data]]

\* class UserCreate(UserBase): username, email, password and role_id are required
UserCreate(body) == {"username", "email", "password", "role_id"} \subseteq DOMAIN body

HasId(u) == "id" \in DOMAIN u

\* db.query(User).filter(User.id == user_id).first(), as a set of at most one row
ById(user_id) == {u \in users : HasId(u) /\ u.id = user_id}

NoRole == <<>>

\* user.role.nombre; the relationship is None when role_id names no role
RoleNombre(u) ==
    IF "role_id" \in DOMAIN u /\ \E ro \in Roles : ro.id = u.role_id
    THEN (CHOOSE ro \in Roles : ro.id = u.role_id).nombre
    ELSE NoRole

\* register and create_user up to the commit: request validation against
\* UserCreate (422), the lookup of the email or username and of the role (400)
CreateQuery(r, op, body) ==
    LET q == Call(op, body)
        existing_user == \E u \in users : u.email = body.email \/ u.username = body.username
        role == {ro \in Roles : ro.id = body.role_id}
    IN
    /\ api[r].pc = "idle"
    /\ auto_increment <= MaxId
    /\ api' = [api EXCEPT ![r] =
           IF ~UserCreate(body) THEN Respond(q, 422, NoData)
           ELSE IF existing_user THEN Respond(q, 400, NoData)
           ELSE IF role = {} THEN Respond(q, 400, NoData)
           ELSE [q EXCEPT !.pc = "commit"]]
    /\ UNCHANGED <<users, auto_increment>>
    /\ UNCHANGED importVars
    /\ UNCHANGED wsVars

\* db.add(new_user); db.commit(); db.refresh(new_user); the response.  A
\* failed INSERT is caught by except Exception and answered with 500.  In
\* register the broadcast comes before the response: the specifications of
\* the user endpoints open no WebSocket connection, so it sends nothing
CreateCommit(r, op) ==
    LET q == api[r]
        new_user == [id |-> auto_increment, username |-> q.arg.username,
                     email |-> q.arg.email, password_hash |-> HashPw(q.arg.password),
                     role_id |-> q.arg.role_id]
    IN
    /\ q.pc = "commit"
    /\ q.op = op
    /\ IF FlushStatus(<<new_user>>, {}, 0) = "ok"
       THEN /\ users' = users \cup {new_user}
            /\ auto_increment' = auto_increment + 1
            /\ api' = [api EXCEPT ![r] =
                   Respond(q, 200, [id |-> new_user.id, username |-> new_user.username,
                                    email |-> new_user.email, role |-> RoleNombre(new_user)])]
       ELSE /\ api' = [api EXCEPT ![r] = Respond(q, 500, NoData)]
            /\ UNCHANGED <<users, auto_increment>>
    /\ UNCHANGED importVars
    /\ UNCHANGED wsVars

\* POST /auth/register
register(r, body) ==
    \/ CreateQuery(r, "register", body)
    \/ CreateCommit(r, "register")

\* POST /users
create_user(r, body) ==
    \/ CreateQuery(r, "create_user", body)
    \/ CreateCommit(r, "create_user")

\* jwt.encode({"sub": sub, "exp": utcnow() + expires_delta}): the claims of the token
create_token(sub, expires_delta) == [sub |-> sub, exp |-> expires_delta]

\* POST /auth/login; bcrypt.checkpw compares the hash of the password
login(r, user) ==
    LET q == Call("login", user)
        db_user == {u \in users : u.email = user.email}
        u == CHOOSE u \in db_user : TRUE
        role_nombre == IF RoleNombre(u) = NoRole THEN Cliente ELSE RoleNombre(u)
    IN
    /\ api[r].pc = "idle"
    /\ api' = [api EXCEPT ![r] =
           IF db_user = {} THEN Respond(q, 404, NoData)
           ELSE IF HashPw(user.password) # u.password_hash THEN Respond(q, 401, NoData)
           ELSE Respond(q, 200,
                    [token |-> create_token(u.email, ACCESS_TOKEN_EXPIRE_MINUTES),
                     role |-> role_nombre, username |-> u.username,
                     refresh_token |-> create_token(u.email, REFRESH_TOKEN_EXPIRE_MINUTES)])]
    /\ UNCHANGED <<users, auto_increment>>
    /\ UNCHANGED importVars
    /\ UNCHANGED wsVars

\* GET /users/{user_id}
get_user(r, user_id) ==
    LET q == Call("get_user", user_id)
        user == ById(user_id)
        u == CHOOSE u \in user : TRUE
    IN
    /\ api[r].pc = "idle"
    /\ api' = [api EXCEPT ![r] =
           IF user = {} THEN Respond(q, 404, NoData)
           ELSE Respond(q, 200, [id |-> u.id, username |-> u.username, email |-> u.email])]
    /\ UNCHANGED <<users, auto_increment>>
    /\ UNCHANGED importVars
    /\ UNCHANGED wsVars

\* the column after the UPDATE: SQLAlchemy writes an attribute that was set
\* to a value other than the loaded one
Column(col, value, loaded, current) ==
    IF col \in DOMAIN value /\ value[col] # loaded THEN value[col] ELSE current

\* the row after the UPDATE of update_user
Updated(user_data, loaded, current) ==
    [current EXCEPT
       !.username = Column("username", user_data, loaded.username, @),
       !.email = Column("email", user_data, loaded.email, @),
       !.password_hash =
           IF "password" \in DOMAIN user_data THEN HashPw(user_data.password) ELSE @]

\* PUT /users/{user_id}: the user is loaded (404 if there is none) and its
\* attributes are set; then db.commit() and db.refresh(user).  An UPDATE
\* that matches no row, a duplicate email and a lock wait raise, and the
\* handler answers 500
update_user(r, user_id, user_data) ==
    \/ LET q == Call("update_user", [user_id |-> user_id, user_data |-> user_data]) IN
       /\ api[r].pc = "idle"
       /\ api' = [api EXCEPT ![r] =
              IF ById(user_id) = {} THEN Respond(q, 404, NoData)
              ELSE [q EXCEPT !.pc = "commit", !.row = CHOOSE u \in ById(user_id) : TRUE]]
       /\ UNCHANGED users
    \/ LET q == api[r]
           current == ById(q.arg.user_id)
           old == CHOOSE u \in current : TRUE
           new == Updated(q.arg.user_data, q.row, old)
           taken == Emails(users \ {old}) \cup Emails(OthersUncommitted(0))
       IN
       /\ q.pc = "commit"
       /\ q.op = "update_user"
       /\ IF current = {} \/ (new.email # old.email /\ new.email \in taken)
          THEN /\ api' = [api EXCEPT ![r] = Respond(q, 500, NoData)]
               /\ UNCHANGED users
          ELSE /\ users' = (users \ {old}) \cup {new}
               /\ api' = [api EXCEPT ![r] =
                      Respond(q, 200, [id |-> new.id, username |-> new.username,
                                       email |-> new.email])]
    /\ UNCHANGED auto_increment
    /\ UNCHANGED importVars
    /\ UNCHANGED wsVars

\* DELETE /users/{user_id}: the user is loaded (404 if there is none); then
\* db.delete(user) and db.commit().  A DELETE that matches no row is only
\* warned about
delete_user(r, user_id) ==
    \/ LET q == Call("delete_user", user_id) IN
       /\ api[r].pc = "idle"
       /\ api' = [api EXCEPT ![r] =
              IF ById(user_id) = {} THEN Respond(q, 404, NoData)
              ELSE [q EXCEPT !.pc = "commit"]]
       /\ UNCHANGED users
    \/ /\ api[r].pc = "commit"
       /\ api[r].op = "delete_user"
       /\ users' = users \ ById(api[r].arg)
       /\ api' = [api EXCEPT ![r] = Respond(api[r], 200, [id |-> api[r].arg])]
    /\ UNCHANGED auto_increment
    /\ UNCHANGED importVars
    /\ UNCHANGED wsVars

\* the users import_validated_data stages, with the ids their INSERTs take
Inserts(new) ==
    {[id |-> auto_increment + k - 1, username |-> new[k].username, email |-> new[k].email,
      password_hash |-> new[k].password_hash, role_id |-> new[k].role_id] :
        k \in 1..Len(new)}

\* JSON bodies of POST /import-validated-data (the data of the request): two
\* rows with one email; a complete row and a row without email
ImportBodies ==
    { << [username |-> ana, email |-> ana_mail, password |-> pw1],
         [username |-> bob, email |-> ana_mail, password |-> pw2] >>,
      << [username |-> bob, email |-> bob_mail, password |-> pw2],
         [username |-> ana, password |-> pw1] >> }

\* str(row.get(key, "")).strip()
Get(row, key) == IF key \in DOMAIN row THEN Strip(row[key]) ELSE <<>>

\* POST /import-validated-data: the call; one turn of the loop over
\* request.data (validation, lookup of the email without autoflush, db.add,
\* commit at every 50th insert; an exception skips the row); the final
\* commit, the broadcast (to no connection) and the response, or the
\* rollback and 500 of the outer handler
import_validated_data(r, data) ==
    LET q == api[r]
        s == WithSnapshot(q.db)
        row == q.arg[q.i]
        skip(p, reason) == [p EXCEPT !.skipped = Append(@, [row |-> q.i, reason |-> reason])]
        next(p) == IF q.i < Len(q.arg) THEN [p EXCEPT !.i = @ + 1] ELSE [p EXCEPT !.pc = "final"]
        new_user == [username |-> Get(row, "username"), email |-> Get(row, "email"),
                     password_hash |-> HashPw(Get(row, "password")), role_id |-> 0]
        added == [q EXCEPT !.db = [s EXCEPT !.new = Append(@, new_user)], !.inserted = @ + 1]
    IN
    \/ /\ q.pc = "idle"
       /\ auto_increment <= MaxId
       /\ api' = [api EXCEPT ![r] =
              [Call("import_validated_data", data) EXCEPT !.pc = "row", !.i = 1]]
       /\ UNCHANGED <<users, auto_increment>>
    \/ /\ q.pc = "row"
       /\ IF Get(row, "username") = <<>> \/ Get(row, "email") = <<>> \/ Get(row, "password") = <<>>
          THEN /\ api' = [api EXCEPT ![r] = next(skip(q, "Campos incompletos"))]
               /\ UNCHANGED <<users, auto_increment>>
          ELSE IF q.broken
          THEN /\ api' = [api EXCEPT ![r] = next(skip(q, "PendingRollbackError"))]
               /\ UNCHANGED <<users, auto_increment>>
          ELSE IF QueryByEmail(s, new_user.email)
          THEN /\ api' = [api EXCEPT ![r] = next(skip([q EXCEPT !.db = s], "Email ya existe"))]
               /\ UNCHANGED <<users, auto_increment>>
          ELSE IF added.inserted % ChunkSize # 0
          THEN /\ api' = [api EXCEPT ![r] = next(added)]
               /\ UNCHANGED <<users, auto_increment>>
          ELSE IF FlushStatus(added.db.new, {}, 0) = "ok"
          THEN /\ users' = users \cup Inserts(added.db.new)
               /\ auto_increment' = auto_increment + Len(added.db.new)
               /\ api' = [api EXCEPT ![r] = next([added EXCEPT !.db = RolledBack(@)])]
          ELSE /\ api' = [api EXCEPT ![r] =
                      next(skip([added EXCEPT !.db = FlushFailed(@), !.broken = TRUE],
                                "IntegrityError"))]
               /\ UNCHANGED <<users, auto_increment>>
    \/ /\ q.pc = "final"
       /\ IF ~q.broken /\ FlushStatus(q.db.new, {}, 0) = "ok"
          THEN /\ users' = users \cup Inserts(q.db.new)
               /\ auto_increment' = auto_increment + Len(q.db.new)
               /\ api' = [api EXCEPT ![r] =
                      Respond(q, 200, [inserted |-> q.inserted, skipped |-> q.skipped,
                                       total |-> Len(q.arg)])]
          ELSE /\ api' = [api EXCEPT ![r] = Respond(q, 500, NoData)]
               /\ UNCHANGED <<users, auto_increment>>
    /\ UNCHANGED importVars
    /\ UNCHANGED wsVars

(***************************************************************************)
(* utils/auth.py: the role check of the protected endpoints.               *)
(***************************************************************************)
administrador == <<"a", "d", "m", "i", "n", "i", "s", "t", "r", "a", "d", "o", "r">>
admin == <<"a", "d", "m", "i", "n">>
cliente == <<"c", "l", "i", "e", "n", "t", "e">>
client == <<"c", "l", "i", "e", "n", "t">>
user == <<"u", "s", "e", "r">>
usuario == <<"u", "s", "u", "a", "r", "i", "o">>

\* Depends(role_required([...])) of the protected endpoints of main.py
allowed_roles ==
    [create_role |-> <<admin>>, create_product |-> <<admin>>, update_product |-> <<admin>>,
     delete_product |-> <<admin>>, get_statistics |-> <<admin>>,
     rent_product |-> <<client>>, get_my_rentals |-> <<client, cliente>>]

\* the normalisation of the user's role
NormalizedRole(nombre) ==
    LET user_role == Strip(Lower(nombre)) IN
    IF user_role \in {administrador, admin} THEN admin
    ELSE IF user_role \in {cliente, user, usuario} THEN user
    ELSE user_role

\* role_required(allowed)(current_user): TRUE if the user is let through,
\* FALSE if HTTPException(403) is raised
role_required(allowed, nombre) ==
    NormalizedRole(nombre) \in {Strip(Lower(allowed[i])) : i \in 1..Len(allowed)}

\* the dependency of a protected endpoint, called with the token of `email`:
\* get_current_user answers 401 when no user has the email; a user without
\* role raises AttributeError (500); role_required answers 403 or returns
\* the user to the endpoint
dependency(r, endpoint, email) ==
    LET q == Call(endpoint, email)
        found == {u \in users : u.email = email}
        current_user == CHOOSE u \in found : TRUE
    IN
    /\ api[r].pc = "idle"
    /\ api' = [api EXCEPT ![r] =
           IF found = {} THEN Respond(q, 401, NoData)
           ELSE IF RoleNombre(current_user) = NoRole THEN Respond(q, 500, NoData)
           ELSE IF ~role_required(allowed_roles[endpoint], RoleNombre(current_user))
           THEN Respond(q, 403, NoData)
           ELSE Respond(q, 200, [current_user |-> current_user.email])]
    /\ UNCHANGED <<users, auto_increment>>
    /\ UNCHANGED importVars
    /\ UNCHANGED wsVars

(***************************************************************************)
(* Specification of the pipeline.                                          *)
(***************************************************************************)
Init ==
    /\ fs = [p \in Paths |-> 0]
    /\ nextTask = 0
    /\ file_path = [t \in TaskIds |-> <<>>]
    /\ lastUpload = [code |-> 0, task_id |-> 0]
    /\ loc = [t \in TaskIds |-> InitLoc]
    /\ session = [t \in TaskIds |-> ClosedSession]
    /\ users = {}
    /\ store = [t \in TaskIds |-> Pending]
    /\ published = [t \in TaskIds |-> <<>>]
    /\ reads = [t \in TaskIds |-> {}]
    /\ upFile = [t \in TaskIds |-> 0]
    /\ lastPoll = NoPoll
    /\ hist = [t \in TaskIds |-> NoHist]
    /\ active_connections = <<>>
    /\ conn = [c \in Conns |-> "new"]
    /\ bc = [b \in Broadcasts |-> IdleBroadcast]
    /\ relay = InitRelay
    /\ cursor = [t \in TaskIds |-> 0]
    /\ lifecycle = [startup |-> "idle", shutdown |-> "idle"]
    /\ api = [r \in Requests |-> IdleRequest]
    /\ auto_increment = 1

\* a client uploads one of `files` under one of `names`; clients upload until
\* `limit` uploads have been accepted
Upload(names, files, limit) ==
    \E name \in names, f \in files :
      /\ nextTask < limit
      /\ upload_excel(name, f)

Next ==
    \/ Upload(FileNames, SmallFiles, MaxTasks)
    \/ \E t \in TaskIds : ImportSteps(t, NoFaults)

Spec == Init /\ [][Next]_vars

\* the pipeline when Redis, MySQL and the disk may fail
NextFault ==
    \/ Upload(FileNames, SmallFiles, FaultTasks)
    \/ \E t \in TaskIds : ImportSteps(t, AnyFault)

SpecFault == Init /\ [][NextFault]_vars

\* the worker keeps executing the run it has picked up: every call of the
\* function returns or raises (a lock wait ends with a timeout)
LiveSpec == SpecFault /\ \A t \in TaskIds : WF_vars(ImportSteps(t, AnyFault))

\* the pipeline with a polling client and the expiry of results
NextPoll ==
    \/ Upload(FileNames, SmallFiles, PollTasks)
    \/ \E t \in TaskIds : ImportSteps(t, AnyFault)
    \/ \E t \in TaskIds : Expire(t)
    \/ \E id \in PollIds : Poll(id, AnyFault)

SpecPoll == Init /\ [][NextPoll]_vars

\* a producer sends at most PreviewTasks preview tasks
SendPreview ==
    \E path \in Paths :
      /\ nextTask < MaxTasks
      /\ Cardinality({t \in TaskIds : file_path[t] # <<>> /\ upFile[t] = 0}) < PreviewTasks
      /\ send_preview(path)

\* uploads and previews, when Redis and the disk may fail
NextPreview ==
    \/ Upload(FileNames, SmallFiles, MaxTasks - PreviewTasks)
    \/ \E t \in TaskIds : ImportSteps(t, AnyFault)
    \/ SendPreview
    \/ \E t \in TaskIds : process_excel_preview_task(t, AnyFault)

SpecPreview == Init /\ [][NextPreview]_vars

\* what the clients upload while the relay runs, and what may fail in the runs
RelayNames == {<<"a", ".", "x", "l", "s", "x">>}

RelayFiles == {3}

RelayFaults == {"open"}

\* the relay between the workers and the push clients
NextRelay ==
    \/ Upload(RelayNames, RelayFiles, RelayTasks)
    \/ \E t \in TaskIds : ImportSteps(t, RelayFaults)
    \/ \E c \in 1..RelayConns : connect(c)
    \/ \E c \in 1..RelayConns : notify_disconnect(c)
    \/ startup_event
    \/ redis_listener({"connection", "broadcast"})

SpecRelay == Init /\ [][NextRelay]_vars

\* the relay when the application is shut down and the cleanup may fail
NextShutdown ==
    \/ Upload(RelayNames, RelayFiles, RelayTasks)
    \/ \E t \in TaskIds : ImportSteps(t, RelayFaults)
    \/ \E c \in 1..RelayConns : connect(c)
    \/ \E c \in 1..RelayConns : notify_disconnect(c)
    \/ startup_event
    \/ redis_listener({"connection", "broadcast", "cleanup"})
    \/ shutdown_event
    \/ shutdown_return

SpecShutdown == Init /\ [][NextShutdown]_vars

\* a run at the head of the row loop of a workbook with `total` rows, `current`
\* of them done
InitPercent ==
    \E total \in 1..MaxTotal : \E current \in 0..(total - 1) :
      /\ fs = [p \in Paths |-> 0]
      /\ nextTask = 1
      /\ file_path = [t \in TaskIds |->
             IF t = 1 THEN PathJoin(UPLOAD_DIR, <<"a", ".", "x", "l", "s", "x">>) ELSE <<>>]
      /\ lastUpload = [code |-> 200, task_id |-> 1]
      /\ loc = [t \in TaskIds |->
             IF t = 1
             THEN [InitLoc EXCEPT !.pc = "row", !.total = total, !.current = current]
             ELSE InitLoc]
      /\ session = [t \in TaskIds |-> ClosedSession]
      /\ users = {}
      /\ store = [t \in TaskIds |-> IF t = 1 THEN [state |-> "STARTED"] ELSE Pending]
      /\ published = [t \in TaskIds |-> <<>>]
      /\ reads = [t \in TaskIds |-> {}]
      /\ upFile = [t \in TaskIds |-> 0]
      /\ lastPoll = NoPoll
      /\ hist = [t \in TaskIds |-> NoHist]
      /\ active_connections = <<>>
      /\ conn = [c \in Conns |-> "new"]
      /\ bc = [b \in Broadcasts |-> IdleBroadcast]
      /\ relay = InitRelay
      /\ cursor = [t \in TaskIds |-> 0]
      /\ lifecycle = [startup |-> "idle", shutdown |-> "idle"]
      /\ api = [r \in Requests |-> IdleRequest]
      /\ auto_increment = 1

\* the progress of the next row is computed, stored and published, and a
\* client polls the task
NextPercent ==
    \/ RowProgress(1, NoFaults)
    \/ Poll(1, NoFaults)

SpecPercent == InitPercent /\ [][NextPercent]_vars

\* the push connection registry
NextRegistry ==
    \/ \E c \in Conns : connect(c)
    \/ \E c \in Conns : notify_disconnect(c)
    \/ \E b \in Broadcasts : broadcast_start(b)
    \/ \E b \in Broadcasts : broadcast_send(b)

SpecRegistry == Init /\ [][NextRegistry]_vars

\* one run over the large workbook, with chunk commits, when Redis, MySQL
\* and the disk may fail
NextChunk ==
    \/ Upload(RelayNames, {4}, 1)
    \/ ImportSteps(1, AnyFault)
    \/ ChunkCommit(1, AnyFault)

SpecChunk == Init /\ [][NextChunk]_vars

\* the bodies of the calls that meet a run over File3, whose row holds a@x
RaceBodies ==
    {[username |-> bob, email |-> e, password |-> pw2, role_id |-> 2] : e \in {ana_mail, bob_mail}}

\* the operations that write emails, side by side: register, create_user,
\* update_user and import_validated_data calls and one process_excel_task run
NextUsers ==
    \/ Upload(RelayNames, {3}, 1)
    \/ ImportSteps(1, NoFaults)
    \/ \E r \in Requests : \E body \in RaceBodies : register(r, body)
    \/ \E r \in Requests : \E body \in RaceBodies : create_user(r, body)
    \/ \E r \in Requests : \E user_id \in UserIds : update_user(r, user_id, [email |-> ana_mail])
    \/ \E r \in Requests : \E data \in ImportBodies : import_validated_data(r, data)

SpecUsers == Init /\ [][NextUsers]_vars

\* clients call the user endpoints and the protected endpoints
NextApi ==
    \/ \E r \in Requests : \E body \in UserBodies : register(r, body)
    \/ \E r \in Requests : \E body \in UserBodies : create_user(r, body)
    \/ \E r \in Requests : \E body \in Logins : login(r, body)
    \/ \E r \in Requests : \E user_id \in UserIds : get_user(r, user_id)
    \/ \E r \in Requests : \E user_id \in UserIds : \E user_data \in UserUpdates :
         update_user(r, user_id, user_data)
    \/ \E r \in Requests : \E user_id \in UserIds : delete_user(r, user_id)
    \/ \E r \in Requests : \E endpoint \in DOMAIN allowed_roles :
         \E email \in {ana_mail, bob_mail} : dependency(r, endpoint, email)

SpecApi == Init /\ [][NextApi]_vars


(***************************************************************************)
(* Properties.                                                             *)
(***************************************************************************)
\* the header of the sheet holds username, email and password in any case
ValidSheet(sheet) ==
    \A col \in required_columns :
       \E k \in 1..Len(sheet.columns) : Lower(sheet.columns[k]) = col

RECURSIVE SumRows(_)
SumRows(sheets) ==
    IF sheets = <<>> THEN 0
    ELSE (IF ValidSheet(Head(sheets)) THEN Len(Head(sheets).rows) ELSE 0) + SumRows(Tail(sheets))

\* N: the rows of the sheets of file f that have the required columns
ValidRows(f) == SumRows(Files[f])

\* every read of the run found file f at its path
RanOver(t, f) == reads[t] = {f}

Succeeded(t) == store[t].state = "SUCCESS"

Failed(t) == store[t].state = "FAILURE"

\* C1: a run that ends in SUCCESS over a file with N rows in its valid sheets
\* reports total = N in every progress message, and its final payload (the
\* completed message and the stored result) has inserted + len(skipped) = N.
C1_EveryRowCountedOnce ==
    \A t \in TaskIds : \A f \in FileIds :
      (Succeeded(t) /\ RanOver(t, f)) =>
         /\ \A i \in 1..Len(published[t]) :
              published[t][i].type = "progress" => published[t][i].total = ValidRows(f)
         /\ store[t].result.rows + Len(store[t].result.skipped) = ValidRows(f)
         /\ \E i \in 1..Len(published[t]) :
              /\ published[t][i].type = "completed"
              /\ published[t][i].inserted + Len(published[t][i].skipped) = ValidRows(f)

\* a run over File1 (two sheets, one ignored) has succeeded: 3 rows counted,
\* 1 inserted and 2 skipped
C1_Witness ==
    \E t \in TaskIds :
      /\ Succeeded(t) /\ RanOver(t, 1)
      /\ published[t][1].type = "progress" /\ published[t][1].total = 3
      /\ store[t].result.rows = 1 /\ Len(store[t].result.skipped) = 2


\* C2: for one task id, among the messages of type "progress" published on
\* progress_channel (the message of a failed run included), current never
\* decreases from one message to the next and never exceeds total.
C2_CurrentNeverDecreases ==
    \A t \in TaskIds :
      /\ \A i \in 1..Len(published[t]) :
           published[t][i].type = "progress" =>
              published[t][i].current <= published[t][i].total
      /\ \A i, j \in 1..Len(published[t]) :
           (i < j /\ published[t][i].type = "progress" /\ published[t][j].type = "progress") =>
              published[t][i].current <= published[t][j].current

\* the connections to which broadcast b has sent the message
Delivered(b) == SeqToSet(bc[b].delivered)

\* connection c was removed by its own handler or by another broadcast
RemovedElsewhere(b, c) ==
    \/ conn[c] = "closed"
    \/ \E o \in Broadcasts \ {b} : c \in bc[o].failed

\* a returned broadcast has sent to every connection of its copy whose send
\* did not raise, the failing ones are gone and the others are still registered
C3_Returned ==
    \A b \in Broadcasts :
      /\ bc[b].pc # "raised"
      /\ bc[b].pc = "done" =>
           /\ Delivered(b) \cup bc[b].failed = SeqToSet(bc[b].snapshot)
           /\ Delivered(b) \cap bc[b].failed = {}
           /\ bc[b].failed \cap SeqToSet(active_connections) = {}
           /\ \A c \in Delivered(b) :
                c \in SeqToSet(active_connections) \/ RemovedElsewhere(b, c)

\* a step of a broadcast removes from active_connections the connection whose
\* send raised, and nothing else
C3_Step ==
    \A b \in Broadcasts :
      bc'[b] # bc[b] =>
         \/ active_connections' = active_connections
         \/ /\ bc[b].pc = "sending"
            /\ bc'[b].failed = bc[b].failed \cup {bc[b].snapshot[bc[b].i]}
            /\ active_connections' = RemoveFirst(active_connections, bc[b].snapshot[bc[b].i])

\* C3: when a send of broadcast raises, the message still goes to every other
\* connection registered when the broadcast started, broadcast raises nothing,
\* and exactly the failing connections are removed from active_connections.
C3_BroadcastResilient == []C3_Returned /\ [][C3_Step]_vars

\* a broadcast over two connections has returned: one send raised, the other
\* connection got the message and is still registered
C3_Witness ==
    \E b \in Broadcasts :
      /\ bc[b].pc = "done"
      /\ Len(bc[b].snapshot) = 2
      /\ bc[b].failed # {}
      /\ \E c \in Delivered(b) : c \in SeqToSet(active_connections)

\* the cell holds text made of whitespace only (the empty text included)
Blank(cell) == cell.kind = "str" /\ \A i \in 1..Len(cell.v) : cell.v[i] = " "

\* a row with an empty username, email or password after trimming
Incomplete(row) == Blank(row.username) \/ Blank(row.email) \/ Blank(row.password)

\* C4: the step that processes a row whose username, email or password is
\* empty after trimming appends the row to skipped with the incomplete-fields
\* reason, stages no user, and leaves the session and the users table as they were.
C4_IncompleteRowSkipped ==
    [][\A t \in TaskIds :
         (loc[t].pc = "process" /\ loc'[t] # loc[t] /\ Incomplete(loc[t].df.rows[loc[t].ri])) =>
            /\ loc'[t].skipped = Append(loc[t].skipped,
                                        [row |-> loc[t].ri, sheet |-> loc[t].sheet_name,
                                         reason |-> "Campos incompletos"])
            /\ loc'[t].inserted = loc[t].inserted
            /\ session'[t] = session[t]
            /\ users' = users]_vars

\* row 2 of File1 (username " ") has been skipped as incomplete after row 1 was staged
C4_Witness ==
    \E t \in TaskIds :
      /\ loc[t].pc = "row" /\ loc[t].ri = 3
      /\ loc[t].inserted = 1
      /\ Len(loc[t].skipped) = 1
      /\ loc[t].skipped[1] = [row |-> 2, sheet |-> "Users", reason |-> "Campos incompletos"]
      /\ Len(session[t].new) = 1

\* run t2 is a second run over file f: run t1 over f had succeeded when t2
\* started, and the users table was then as t1 left it
Rerun(t1, t2, f) ==
    /\ t1 # t2
    /\ Succeeded(t1) /\ RanOver(t1, f)
    /\ Succeeded(t2) /\ RanOver(t2, f)
    /\ t1 \in hist[t2].after
    /\ hist[t2].users0 = hist[t1].users1

\* every row of the valid sheets of f is in skipped, with the reason the row calls for
EverySkipped(skipped, f, reason(_)) ==
    \A k \in 1..Len(Files[f]) :
       ValidSheet(Files[f][k]) =>
          \A r \in 1..Len(Files[f][k].rows) :
             [row |-> r, sheet |-> Files[f][k].name, reason |-> reason(Files[f][k].rows[r])]
                \in SeqToSet(skipped)

DuplicateReason(row) == "Duplicado"

SkipReason(row) == IF Incomplete(row) THEN "Campos incompletos" ELSE "Duplicado"

\* C5 as stated: the second run over a file inserts nothing, leaves the users
\* table unchanged and skips every row of the file as a duplicate.
C5_ReimportAllDuplicate ==
    \A t1, t2 \in TaskIds : \A f \in FileIds :
      Rerun(t1, t2, f) =>
         /\ store[t2].result.rows = 0
         /\ hist[t2].committed = {}
         /\ EverySkipped(store[t2].result.skipped, f, DuplicateReason)

\* C5: the second run over a file inserts nothing, leaves the users table
\* unchanged and skips every row of the file exactly once: a row with an empty
\* field as incomplete, every other row as a duplicate.
C5_ReimportInsertsNothing ==
    \A t1, t2 \in TaskIds : \A f \in FileIds :
      Rerun(t1, t2, f) =>
         /\ store[t2].result.rows = 0
         /\ hist[t2].committed = {}
         /\ Len(store[t2].result.skipped) = ValidRows(f)
         /\ EverySkipped(store[t2].result.skipped, f, SkipReason)

\* File1 has been imported twice in a row: the first run inserted a user, the
\* second run skipped the three rows
C5_Witness ==
    \E t1, t2 \in TaskIds :
      /\ Rerun(t1, t2, 1)
      /\ store[t1].result.rows = 1
      /\ hist[t1].committed # {}
      /\ Len(store[t2].result.skipped) = 3

NoValidSheet(f) == \A k \in 1..Len(Files[f]) : ~ValidSheet(Files[f][k])

\* the values of current a poll may find in the store
PollCurrents == 0..3

\* C6: a run over a file without any valid sheet (total = 0) never reaches the
\* division, raises nothing, stages and commits nothing and ends in SUCCESS with
\* 0 rows; and the poll computes percent 0 whenever total is 0.
C6_NoValidSheetNoCrash ==
    /\ \A t \in TaskIds : \A f \in FileIds :
         (RanOver(t, f) /\ NoValidSheet(f)) =>
            /\ loc[t].pc # "except" /\ ~Failed(t)
            /\ loc[t].current = 0
            /\ loc[t].pc # "done" => loc[t].total = 0
            /\ published[t] = <<>> \/ loc[t].pc \in {"finally", "done"}
            /\ \A i \in 1..Len(published[t]) : published[t][i].type = "completed"
            /\ session[t].new = <<>> /\ session[t].flushed = {}
            /\ hist[t].committed = {}
            /\ loc[t].pc = "done" =>
                 /\ Succeeded(t)
                 /\ store[t].result.rows = 0 /\ store[t].result.skipped = <<>>
    /\ \A c \in PollCurrents :
         get_task_status([state |-> "PROGRESS",
                          meta |-> [current |-> c, total |-> 0, percent |-> 0]]).percent = 0

\* a run over File2 has ended in SUCCESS with 0 rows
C6_Witness ==
    \E t \in TaskIds :
      /\ RanOver(t, 2) /\ Succeeded(t)
      /\ store[t].result.rows = 0
      /\ Len(published[t]) = 1

\* C7: every import task a worker has picked up eventually reaches SUCCESS or
\* FAILURE in the task status store, whatever raises on the way.
C7_EveryRunEnds ==
    \A t \in TaskIds :
      (store[t].state = "STARTED") ~> (store[t].state \in {"SUCCESS", "FAILURE"})

\* a run whose exception handler raised has ended in FAILURE
C7_Witness ==
    \E t \in TaskIds :
      /\ Failed(t)
      /\ loc[t].pc = "done"
      /\ loc[t].result.status = "handler_raised"

\* the positions inside the loop over the rows of a sheet
InRowLoop == {"row", "process", "chunk_commit"}

\* the failure messages run t has published
FailureEvents(t) == {i \in 1..Len(published[t]) : published[t][i].status = "failed"}

\* no row is announced twice: the counts of the processing messages increase
NoRetry(t) ==
    \A i, j \in 1..Len(published[t]) :
      (i < j /\ published[t][i].status = "processing" /\ published[t][j].status = "processing") =>
         published[t][i].current < published[t][j].current

\* nothing of the run is left: the session is closed and empty, nothing was committed
NothingKept(t) ==
    /\ ~session[t].open
    /\ session[t].new = <<>> /\ session[t].flushed = {}
    /\ hist[t].committed = {}

\* one failure message, with the task id and the text of exception e
OneFailureEvent(t, e) ==
    /\ Cardinality(FailureEvents(t)) = 1
    /\ \A i \in FailureEvents(t) :
         published[t][i].error = e /\ published[t][i].task_id = t

\* C8 as stated: after an exception in the row loop the staged inserts are
\* rolled back, one failure message with the error and the task id is published,
\* the task ends in FAILURE with that error, no row is retried and the session
\* is closed.
C8_FailureReported ==
    \A t \in TaskIds :
      (loc[t].pc = "done" /\ loc[t].at \in InRowLoop) =>
         /\ Failed(t) /\ store[t].error = loc[t].e
         /\ OneFailureEvent(t, loc[t].e)
         /\ NothingKept(t)
         /\ NoRetry(t)

\* C8: after an exception in the row loop the task ends in FAILURE, nothing
\* staged is kept, no row is retried and the session is closed; when the handler
\* runs through, one failure message with the error and the task id is published
\* and the task fails with that error; when rollback or publish raises inside
\* the handler, no failure message is published and the task fails with the
\* handler's error.
C8_FailureReportedUnlessHandlerRaises ==
    \A t \in TaskIds :
      (loc[t].pc = "done" /\ loc[t].at \in InRowLoop) =>
         /\ Failed(t)
         /\ NothingKept(t)
         /\ NoRetry(t)
         /\ loc[t].result.status = "raised" =>
              store[t].error = loc[t].e /\ OneFailureEvent(t, loc[t].e)
         /\ loc[t].result.status = "handler_raised" =>
              store[t].error = loc[t].result.error /\ FailureEvents(t) = {}

\* a run was stopped by an exception at its second row: its failure message
\* follows the progress message of the first row
C8_Witness ==
    \E t \in TaskIds :
      /\ loc[t].pc = "done" /\ loc[t].at \in InRowLoop
      /\ loc[t].result.status = "raised"
      /\ Len(published[t]) = 2
      /\ published[t][1].status = "processing"
      /\ published[t][2].status = "failed"
      /\ published[t][2].error = store[t].error

\* C9: a duplicate email never ends a run in FAILURE: no run fails on the
\* unique index of users.email, be it by the duplicate-key error or by the wait
\* for the row of a concurrent run.
C9_DuplicateNeverFails ==
    \A t \in TaskIds :
      Failed(t) => store[t].error \notin {"IntegrityError", "OperationalError"}

\* C10: a task is enqueued only for an uploaded file that has a supported
\* format and at least one sheet with the required columns.
C10_OnlyValidFilesEnqueued ==
    \A t \in TaskIds :
      loc[t].pc # "none" =>
         /\ SupportedFormat(SubSeq(file_path[t], Len(UPLOAD_DIR) + 2, Len(file_path[t])))
         /\ ~NoValidSheet(upFile[t])

\* C11: a poll for a task id whose result has expired, or that was never
\* created, reports "not found" and never a pending or in-progress task.
C11_MissingIsNotFound ==
    (lastPoll.code # 0 /\ lastPoll.missing /\ lastPoll.state # "ERROR") =>
       /\ lastPoll.code = 404
       /\ lastPoll.state \notin {"PENDING", "PROGRESS"}

\* C12: once the store holds SUCCESS or FAILURE for a task id, no later step
\* writes another state or payload for it and no further message of the task
\* is published.
C12_TerminalImmutable ==
    [][\A t \in TaskIds :
         store[t].state \in {"SUCCESS", "FAILURE"} =>
            store'[t] = store[t] /\ published'[t] = published[t]]_vars

\* the listener task exists only once startup_event has returned
C13_StartupCompletes == relay.pc # "init" => lifecycle.startup = "done"

\* the order of the states of the relay
RelayOrder ==
    { <<"NONE", "STARTING">>, <<"STARTING", "LISTENING">>, <<"STARTING", "DRAINING">>,
      <<"LISTENING", "DRAINING">>, <<"DRAINING", "STOPPED">> }

\* a step keeps the state of the relay or moves it along RelayOrder; a message
\* that is taken from the channel leaves the relay in LISTENING; an exception
\* of the connection leads into the cleanup; a stopped relay takes no message
\* and sends nothing
C13_Step ==
    /\ \/ RelayState(relay') = RelayState(relay)
       \/ <<RelayState(relay), RelayState(relay')>> \in RelayOrder
    /\ cursor' # cursor /\ RelayState(relay) = "LISTENING" => RelayState(relay') = "LISTENING"
    /\ relay'.exc # relay.exc /\ relay.exc = "" => RelayState(relay') = "DRAINING"
    /\ RelayState(relay) = "STOPPED" =>
          /\ relay' = relay
          /\ cursor' = cursor
          /\ \A t \in TaskIds : cursor[t] = 0

\* C13: the relay goes STARTING -> LISTENING -> DRAINING -> STOPPED only;
\* handling a message keeps it in LISTENING, a failure of the connection or of
\* the subscription takes it through the cleanup to STOPPED, and a stopped
\* relay never listens again, so what is published afterwards reaches no push
\* client; startup_event has completed in any case.
C13_RelayStateMachine == []C13_StartupCompletes /\ [][C13_Step]_vars

\* the relay stopped after a failure of its connection while a client is
\* registered and a run that has published is still in progress
C13_Witness ==
    /\ relay.pc = "stopped"
    /\ relay.exc = "ConnectionError"
    /\ relay.redis = "closed"
    /\ active_connections # <<>>
    /\ \E t \in TaskIds : store[t].state = "PROGRESS" /\ published[t] # <<>>

\* while a broadcast of the relay runs, every connection of the copy it has
\* passed got the message or was removed because its send raised
C14_Sent ==
    relay.pc = "broadcast" =>
       \A k \in 1..(relay.i - 1) :
          \/ relay.snapshot[k] \in relay.delivered
          \/ relay.snapshot[k] \notin SeqToSet(active_connections)

\* dropping a message and a broadcast that raises keep the loop going; a
\* well-formed message that is received is broadcast to the registered
\* connections
C14_Step ==
    /\ relay'.dropped /\ ~relay.dropped => relay'.pc = "listen"
    /\ relay.pc = "broadcast" /\ relay'.exc = relay.exc => relay'.pc \in {"broadcast", "listen"}
    /\ \A t \in TaskIds :
         relay.pc = "listen" /\ cursor'[t] = cursor[t] + 1 =>
            /\ relay'.data = published[t][cursor'[t]]
            /\ relay'.delivered = {}
            /\ IF active_connections = <<>>
               THEN relay'.pc = "listen"
               ELSE relay'.pc = "broadcast" /\ relay'.snapshot = active_connections
                    /\ relay'.i = 1

\* C14: a message whose data is no JSON, or whose broadcast raises, is dropped
\* and the loop goes on: every well-formed message received afterwards is
\* broadcast to the registered connections.
C14_BadMessagesDropped == []C14_Sent /\ [][C14_Step]_vars

\* after a message that is no JSON was dropped, a message of a worker is being
\* broadcast to a registered connection
C14_Witness ==
    /\ relay.dropped
    /\ relay.pc = "broadcast"
    /\ relay.data.type = "progress"

\* C15: when shutdown_event returns, the relay has ended and the Redis client
\* it opened has been closed, unless the close itself raised.
C15_ShutdownCleansUp ==
    lifecycle.shutdown = "returned" =>
       /\ relay.pc = "stopped"
       /\ relay.redis \in {"none", "closed", "close_raised"}

\* C16: the payload the relay broadcasts is a payload a worker published, and
\* its task_id is the id of the task whose run published it.
C16_ForwardsUnchanged ==
    relay.data # <<>> =>
       \E t \in 1..nextTask :
          /\ loc[t].pc # "queued"
          /\ relay.data.task_id = t
          /\ \E k \in 1..Len(published[t]) : published[t][k] = relay.data

\* a client has received a progress message from the relay
C16_Witness ==
    /\ relay.delivered # {}
    /\ relay.data.type = "progress"

\* the list without ws
Without(list, ws) == SelectSeq(list, LAMBDA x : x # ws)

\* disconnect of any connection, applied to the registry as it is: nothing is
\* raised, a connection that is not registered leaves the list as it is, a
\* second call changes nothing, and the other connections stay, in their order
C17_Calls ==
    \A ws \in Conns :
       LET once == disconnect(active_connections, ws)
           twice == disconnect(once.list, ws)
       IN
       /\ ~once.raised /\ ~twice.raised
       /\ ws \notin SeqToSet(active_connections) => once.list = active_connections
       /\ twice.list = once.list
       /\ once.list = Without(active_connections, ws)

\* the disconnect calls of the handlers and of broadcast remove the connection
\* they are called for, and nothing else
C17_Step ==
    /\ \A c \in Conns :
         conn[c] = "open" /\ conn'[c] = "closed" =>
            active_connections' = Without(active_connections, c)
    /\ \A b \in Broadcasts :
         bc'[b].failed # bc[b].failed =>
            active_connections' = Without(active_connections, bc[b].snapshot[bc[b].i])

\* C17: ConnectionManager.disconnect is idempotent: for a connection that is
\* not, or no longer, registered it raises nothing and leaves
\* active_connections unchanged, twice is the same as once, and no other
\* connection is ever removed by it.
C17_DisconnectIdempotent == []C17_Calls /\ [][C17_Step]_vars

\* disconnect was called twice for one connection, by its handler and by a
\* broadcast whose send to it raised, while another connection stays registered
C17_Witness ==
    \E b \in Broadcasts : \E c \in bc[b].failed :
       /\ conn[c] = "closed"
       /\ \E o \in Conns \ {c} : o \in SeqToSet(active_connections)

\* the sequence holds no element twice
NoDuplicates(list) == Cardinality(SeqToSet(list)) = Len(list)

\* C18: whatever the interleaving of connect, disconnect and the sends of one
\* or two broadcasts: no broadcast raises, a broadcast sends its message at
\* most once to a connection, a returned broadcast has sent it to every
\* connection of its copy whose send did not raise, and active_connections
\* never holds a connection twice.
C18_InterleavingSafe ==
    /\ NoDuplicates(active_connections)
    /\ \A b \in Broadcasts :
         /\ bc[b].pc # "raised"
         /\ NoDuplicates(bc[b].delivered)
         /\ NoDuplicates(bc[b].snapshot)
         /\ bc[b].pc = "done" =>
              \A k \in 1..Len(bc[b].snapshot) :
                 bc[b].snapshot[k] \notin bc[b].failed => bc[b].snapshot[k] \in Delivered(b)

\* two broadcasts run at once over different copies of the list, one of them
\* past its first send, and a connection of a copy is no longer registered
C18_Witness ==
    \E b1, b2 \in Broadcasts :
       /\ b1 # b2
       /\ bc[b1].pc = "sending" /\ bc[b2].pc = "sending"
       /\ bc[b1].i = 2
       /\ bc[b1].snapshot # bc[b2].snapshot
       /\ \E k \in 1..Len(bc[b1].snapshot) :
            bc[b1].snapshot[k] \notin SeqToSet(active_connections)

\* C19: no two enqueued tasks have the same file_path, and a run reads no file
\* but the one whose upload enqueued it.
C19_OnePathOneRun ==
    /\ \A t1, t2 \in 1..nextTask : t1 # t2 => file_path[t1] # file_path[t2]
    /\ \A t \in 1..nextTask : reads[t] \subseteq {upFile[t]}

\* floor(current * 100 / total)
FloorPercent(current, total) == (current * 100) \div total

\* C20: the percent of every PROGRESS status update and PROGRESS message of a
\* run, and of every answer of get_task_status for a task in PROGRESS with
\* total > 0, is floor(current * 100 / total), hence between 0 and 100.
C20_PercentIsFloor ==
    /\ \A t \in TaskIds :
         /\ store[t].state = "PROGRESS" =>
              /\ store[t].meta.percent =
                    FloorPercent(store[t].meta.current, store[t].meta.total)
              /\ store[t].meta.percent \in 0..100
         /\ \A k \in 1..Len(published[t]) :
              published[t][k].status = "processing" =>
                 published[t][k].percent =
                    FloorPercent(published[t][k].current, published[t][k].total)
    /\ lastPoll.state = "PROGRESS" /\ lastPoll.total > 0 =>
         /\ lastPoll.percent = FloorPercent(lastPoll.current, lastPoll.total)
         /\ lastPoll.percent \in 0..100

(***************************************************************************)
(* The user endpoints.                                                     *)
(***************************************************************************)
Creates == {"register", "create_user"}

\* the call that request r enters at this step
Enters(r, ops) == api[r].pc = "idle" /\ api'[r] # api[r] /\ api'[r].op \in ops

\* the call of one of ops that request r ends at this step
Ends(r, ops) == api[r].pc # "idle" /\ api[r].op \in ops /\ api'[r].pc = "idle"

\* neither the username nor the email of the body is in the users table
Fresh(body) == \A u \in users : u.email # body.email /\ u.username # body.username

\* the body holds the fields tests/test_users.py sends
AsTested(body) == DOMAIN body = {"username", "email", "password"}

\* C21: a register or create_user call whose body holds a username and an
\* email not yet in the users table and a password (the three fields the
\* tests send) is not turned away, and it ends with status 200 and the id and
\* username of the new user.
C21_CreateSucceeds ==
    [][\A r \in Requests :
         /\ Enters(r, Creates) /\ AsTested(api'[r].arg) /\ Fresh(api'[r].arg)
              => api'[r].pc = "commit"
         /\ Ends(r, Creates)
              => /\ api'[r].resp.status = 200
                 /\ "id" \in DOMAIN api'[r].resp.data
                 /\ api'[r].resp.data.username = api[r].arg.username]_vars

\* the response carries no token under any key
NoToken(resp) == DOMAIN resp.data \cap {"token", "access_token", "refresh_token"} = {}

\* C22: a login with the email and password of a user of the table is answered
\* 200 with data holding "access_token" and "refresh_token"; an unknown email
\* is answered 404 and a wrong password 401, both without any token.
C22_LoginTokens ==
    [][\A r \in Requests :
         Enters(r, {"login"}) =>
           LET cred == api'[r].arg
               resp == api'[r].resp
               known == {u \in users : u.email = cred.email}
           IN IF known = {} THEN resp.status = 404 /\ NoToken(resp)
              ELSE IF \E u \in known : u.password_hash = HashPw(cred.password)
              THEN /\ resp.status = 200
                   /\ {"access_token", "refresh_token"} \subseteq DOMAIN resp.data
              ELSE resp.status = 401 /\ NoToken(resp)]_vars

\* request r gets the response of a call of op at this step
Completes(r, op) == api'[r] # api[r] /\ api'[r].pc = "idle" /\ api'[r].op = op

\* the body passes the validation of the request and names a role that exists
WithRole(body) == UserCreate(body) /\ \E ro \in Roles : ro.id = body.role_id

\* C23: whatever users were created before, POST /users returns an id; GET
\* /users/{id} of a user of the table returns 200 and that id; PUT /users/{id}
\* with a username returns 200 and that username; DELETE /users/{id} returns
\* 200 and the id, the id is then gone for good, and GET of an id that is not
\* in the table returns 404.
C23_CrudRoundTrip ==
    [][\A r \in Requests :
         LET arg == api'[r].arg
             resp == api'[r].resp
         IN
         /\ Completes(r, "create_user") /\ WithRole(arg) => "id" \in DOMAIN resp.data
         /\ Completes(r, "get_user") =>
              IF ById(arg) # {} THEN resp.status = 200 /\ resp.data.id = arg
              ELSE resp.status = 404
         /\ ( /\ Completes(r, "update_user")
              /\ ById(arg.user_id) # {}
              /\ "username" \in DOMAIN arg.user_data )
              => resp.status = 200 /\ resp.data.username = arg.user_data.username
         /\ Completes(r, "delete_user") /\ ById(arg) # {} =>
              /\ resp.status = 200 /\ resp.data.id = arg
              /\ \A u \in users' : HasId(u) => u.id # arg
         /\ \A u \in users' : HasId(u) => ById(u.id) # {} \/ u.id >= auto_increment]_vars

ClientEndpoints == {"rent_product", "get_my_rentals"}

\* C24: the role check of POST /rentals and GET /rentals/me lets a user with
\* role "Cliente" through and answers 403 to a user with role "Administrador";
\* the role check of the admin endpoints (create, update and delete product,
\* create role, statistics) lets "Administrador" through and answers 403 to
\* "Cliente".
C24_RentingIsForClients ==
    [][\A r \in Requests : \A endpoint \in DOMAIN allowed_roles :
         Completes(r, endpoint) =>
           \A u \in users : u.email = api'[r].arg =>
             LET status == api'[r].resp.status
                 through == IF endpoint \in ClientEndpoints THEN Cliente ELSE Administrador
                 refused == IF endpoint \in ClientEndpoints THEN Administrador ELSE Cliente
             IN /\ RoleNombre(u) = through => status = 200
                /\ RoleNombre(u) = refused => status = 403]_vars

(***************************************************************************)
(* The store, the channel and the chunks of a run.                         *)
(***************************************************************************)
\* the messages of run t with status "processing"
ProgressEvents(t) ==
    {m \in SeqToSet(published[t]) : m.type = "progress" /\ m.status = "processing"}

\* C25: once a progress message with current = k is published, the store
\* holds PROGRESS with current >= k or a terminal state; once the completed
\* message is published, the store holds SUCCESS with the inserted count and
\* the skipped list of the message.
C25_StoreBeforeChannel ==
    \A t \in TaskIds :
      /\ \A m \in ProgressEvents(t) :
           \/ store[t].state = "PROGRESS" /\ store[t].meta.current >= m.current
           \/ store[t].state \in {"SUCCESS", "FAILURE"}
      /\ \A m \in SeqToSet(published[t]) : m.type = "completed" =>
           /\ store[t].state = "SUCCESS"
           /\ store[t].result.rows = m.inserted
           /\ store[t].result.skipped = m.skipped

\* the rows run t has staged or skipped so far
Handled(t) == loc[t].inserted + Len(loc[t].skipped)

\* C26: while a run is under way, a published progress message with current
\* = k means that k rows have been validated, checked and staged or skipped;
\* with current = total, every row has been.
C26_ProgressFollowsWork ==
    \A t \in TaskIds : loc[t].pc \notin {"none", "queued", "done"} =>
      \A m \in ProgressEvents(t) : m.current <= Handled(t)

\* the inserts run t has staged and not committed
Staged(t) == Len(session[t].new) + Cardinality(session[t].flushed)

\* C27: a run never holds more than 50 staged, uncommitted inserts: between
\* two turns of the row loop it holds inserted mod 50 of them, whatever rows
\* were skipped, and a run that ends in SUCCESS has committed every insert it
\* counted.
C27_ChunkBound ==
    \A t \in TaskIds :
      /\ Staged(t) <= ChunkSize
      /\ loc[t].pc \in {"sheet", "row", "process", "commit"} =>
           Staged(t) = loc[t].inserted % ChunkSize
      /\ store[t].state = "SUCCESS" =>
           /\ Staged(t) = 0
           /\ Cardinality(hist[t].committed) = store[t].result.rows
           /\ hist[t].committed \subseteq users

\* a run has skipped rows before and after its chunk commit and has succeeded
C27_Witness ==
    /\ store[1].state = "SUCCESS"
    /\ store[1].result.rows > ChunkSize
    /\ Len(store[1].result.skipped) > 2

\* the users of the first c complete rows of the first sheet of file f
FirstStaged(f, c) ==
    LET complete == SelectSeq(Files[f][1].rows, LAMBDA row : ~Incomplete(row))
    IN {User(Strip(Str(complete[n].username)), Strip(Str(complete[n].email)),
             Strip(Str(complete[n].password))) : n \in 1..c}

\* run t is ending with an exception; its locals are still in place
Failing(t) == loc[t].pc = "finally" /\ loc[t].result.status # "completed"

\* neither the failure message nor the stored failure says how many rows persist
NoCountReported(t) ==
    /\ Failed(t) => DOMAIN store[t] = {"state", "error"}
    /\ \A i \in FailureEvents(t) :
         /\ DOMAIN published[t][i] =
              {"type", "task_id", "current", "total", "percent", "status", "error"}
         /\ published[t][i].current = 0

\* C28: a run that fails after k staged inserts has committed exactly the
\* first 50 * floor(k / 50) users of the run; what a run has committed stays
\* in the table; neither the failure message nor the stored failure reports a
\* count of persisted rows.
C28_PartialPersistence ==
    \A t \in TaskIds :
      /\ Failing(t) =>
           hist[t].committed =
             FirstStaged(upFile[t], ChunkSize * (loc[t].inserted \div ChunkSize))
      /\ hist[t].committed \subseteq users
      /\ NoCountReported(t)

\* the status update or the publish at the head of the row loop has raised in run t
ChannelFailed(t) == loc[t].at = "row" /\ loc[t].e = "RedisError"

\* C29: when the status update or the publish of a progress message raises in
\* the row loop, the run handles no further row (the row at hand is not
\* handled and not announced), only the chunks committed before stay in the
\* table, and the run ends in FAILURE with its session closed and nothing
\* staged; when the rollback or the publish of the handler raises, no failure
\* message is published, and the run still ends in FAILURE with its session
\* closed.
C29_ChannelFailureIsFatal ==
    \A t \in TaskIds :
      /\ (loc[t].pc \in {"except", "finally"} /\ ChannelFailed(t)) =>
           /\ Handled(t) = loc[t].current - 1
           /\ \A m \in ProgressEvents(t) : m.current < loc[t].current
           /\ hist[t].committed =
                FirstStaged(upFile[t], ChunkSize * (loc[t].inserted \div ChunkSize))
           /\ users = hist[t].committed
      /\ (loc[t].pc = "done" /\ ChannelFailed(t)) =>
           /\ Failed(t)
           /\ ~session[t].open /\ Staged(t) = 0
           /\ users = hist[t].committed
      /\ loc[t].result.status = "handler_raised" =>
           /\ FailureEvents(t) = {}
           /\ loc[t].pc = "done" => Failed(t) /\ ~session[t].open /\ Staged(t) = 0

\* a run whose publish failed after its first chunk has ended, its handler
\* having raised as well
C29_Witness ==
    /\ loc[1].pc = "done"
    /\ ChannelFailed(1)
    /\ loc[1].result.status = "handler_raised"
    /\ Cardinality(hist[1].committed) = ChunkSize
    /\ Failed(1)

\* no two rows of the users table have the same email
EmailUnique == \A u, v \in users : u.email = v.email => u = v

\* request r is about to write the row with the id of u
Updates(r, u) ==
    /\ api[r].pc = "commit" /\ api[r].op = "update_user"
    /\ HasId(u) /\ api[r].arg.user_id = u.id

\* the rows the step adds under an email that is in the table
Seconds == {n \in users' \ users : n.email \in Emails(users)}

\* a step of the endpoints and of the runs: a row of the table stays as it
\* is unless an update_user call for its id writes it; no row is added under
\* an email of another row; a register, create_user or update_user call that
\* asks for an email of another row ends with an error, and so does an
\* import_validated_data call unless it has skipped the rows with such emails
C30_Step ==
    /\ \A u \in users : u \in users' \/ \E r \in Requests : Updates(r, u)
    /\ \A n \in Seconds : \E r \in Requests, u \in users \ users' :
         Updates(r, u) /\ n.id = u.id /\ n.email = u.email
    /\ \A r \in Requests :
         LET arg == api'[r].arg
             resp == api'[r].resp
         IN
         /\ (\E op \in Creates : Completes(r, op)) /\ arg.email \in Emails(users)
              => resp.status \in {400, 500} /\ users' = users
         /\ ( /\ Completes(r, "update_user")
              /\ \E u \in users : u.email = arg.user_data.email /\ ~(HasId(u) /\ u.id = arg.user_id) )
              => resp.status \in {404, 500} /\ users' = users
         /\ Completes(r, "import_validated_data") =>
              \/ resp.status = 500 /\ users' = users
              \/ /\ resp.status = 200
                 /\ \A i \in 1..Len(arg) :
                      ("email" \in DOMAIN arg[i] /\ Get(arg[i], "email") \in Emails(users))
                        => \E k \in 1..Len(resp.data.skipped) : resp.data.skipped[k].row = i

\* C30: whatever the interleaving of register, create_user, update_user,
\* import_validated_data calls and process_excel_task runs, no two rows of the
\* users table have the same email, and an operation that would make a second
\* user with an email of the table ends with an error or a skip and leaves the
\* existing user as it is.
C30_EmailUnique == []EmailUnique /\ [][C30_Step]_vars

\* a create call lost the race for its email: it passed the lookup, then
\* found the email taken at its commit
C30_Witness ==
    \E r \in Requests :
      /\ api[r].pc = "idle" /\ api[r].op \in Creates
      /\ api[r].resp.status = 500
      /\ \E u \in users : u.email = api[r].arg.email /\ ~HasId(u)

====
